---- MODULE Spec2Model ----
(***************************************************************************)
(* riv, the command line image viewer: the image registry (paths.rs), the  *)
(* sorter (sort.rs), the modal input state machine (ui.rs) and the run     *)
(* loop with its command interpreter (program/mod.rs, command_mode.rs).    *)
(*                                                                         *)
(* Indices are 0-based as in the source; At(s, i) reads s[i + 1].          *)
(* Option<usize> is an integer with None == -1, so that None < Some(x) as  *)
(* in Rust's derived ordering of Option.                                   *)
(***************************************************************************)
EXTENDS Integers, Sequences, FiniteSets, TLC

\* ---------------------------------------------------------------- bounds
\* width of the machine word (usize), scaled down
UsizeBits == 8
\* number of distinct image paths that exist
NumPaths == 3
\* longest image list handed to the registry
MaxImages == 3
\* size of a folder large enough for a skip of more than one image
ManyImages == 10

USIZE_MAX == (2 ^ UsizeBits) - 1
None == -1

PathIds == 1..NumPaths
\* step arguments of increment / decrement
StepInputs == {0, 1, 2, USIZE_MAX}
\* arguments of with_maximum_viewable / set_actual_maximum
CapInputs == 0..(MaxImages + 1)

\* ------------------------------------------------------------- sequences
Min(a, b) == IF a < b THEN a ELSE b
Max(a, b) == IF a > b THEN a ELSE b
At(s, i) == s[i + 1]
RemoveAt(s, i) == [k \in 1..(Len(s) - 1) |-> IF k <= i THEN s[k] ELSE s[k + 1]]
Reverse(s) == [k \in 1..Len(s) |-> s[Len(s) + 1 - k]]
Range(s) == {s[k] : k \in 1..Len(s)}
DistinctSeqs(S, n) ==
  UNION {{s \in [1..k -> S] : \A a, b \in 1..k : a # b => s[a] # s[b]} : k \in 0..n}
\* image lists a glob can produce: distinct paths
ImageLists == DistinctSeqs(PathIds, MaxImages)

saturating_sub(a, b) == IF a >= b THEN a - b ELSE 0
saturating_add(a, b) == IF a + b > USIZE_MAX THEN USIZE_MAX ELSE a + b
\* a multiplication that wraps around instead of saturating
saturating_mul_wrapping(a, b) == (a * b) % (USIZE_MAX + 1)
saturating_mul(a, b) == IF a * b > USIZE_MAX THEN USIZE_MAX ELSE a * b
checked_sub(a, b) == IF a >= b THEN a - b ELSE None

\* an operation's outcome: the registry it leaves and whether it panicked
Ok(p) == [paths |-> p, panic |-> FALSE]
Panic(p) == [paths |-> p, panic |-> TRUE]

\* ---------------------------------------------------------------- Paths
PathsBuilder_new(imgs) ==
  [images |-> imgs,
   index |-> IF Len(imgs) = 0 THEN None ELSE 0,
   art_len |-> Len(imgs),
   art_len_orig |-> None,
   dest_folder |-> "./keep",
   base_dir |-> "."]

with_maximum_viewable(p, cap) ==
  IF cap = 0
  THEN [p EXCEPT !.art_len = Len(p.images), !.art_len_orig = None]
  ELSE [p EXCEPT !.art_len = Min(cap, Len(p.images)), !.art_len_orig = cap]

max_viewable(p) == IF p.art_len = 0 THEN None ELSE p.art_len

max_viewable_index(p) ==
  IF max_viewable(p) = None THEN None ELSE saturating_sub(max_viewable(p), 1)

current_image(p) == IF p.index = None THEN None ELSE p.index + 1

\* the path under the index; "OOB" stands for the slice-index panic
current_image_path(p) ==
  IF p.index = None THEN None
  ELSE IF p.index < Len(p.images) THEN At(p.images, p.index) ELSE -2

set_index(p, i) ==
  IF max_viewable_index(p) = None THEN Panic(p)
  ELSE IF i > max_viewable_index(p) THEN Panic(p)
  ELSE Ok([p EXCEPT !.index = i])

\* reload_images that caps the new set at the viewable count removals left
reload_images_keep_shrunk(p, new_images) ==
  IF Len(new_images) = 0
  THEN [p EXCEPT !.images = new_images, !.index = None, !.art_len = 0]
  ELSE [p EXCEPT !.images = new_images,
                 !.index = 0,
                 !.art_len = IF p.art_len_orig # None
                             THEN Min(p.art_len, Len(new_images))
                             ELSE Len(new_images)]

reload_images(p, new_images) ==
  IF Len(new_images) = 0
  THEN [p EXCEPT !.images = new_images, !.index = None, !.art_len = 0]
  ELSE [p EXCEPT !.images = new_images,
                 !.index = 0,
                 !.art_len = IF p.art_len_orig # None
                             THEN Min(p.art_len_orig, Len(new_images))
                             ELSE Len(new_images)]

\* reverse that shows the first image afterwards
reverse_to_first(p) ==
  LET p1 == [p EXCEPT !.images = Reverse(p.images)] IN
  IF max_viewable_index(p1) = None THEN Ok(p1)
  ELSE IF p1.index = None THEN Panic(p1)
  ELSE set_index(p1, 0)

reverse(p) ==
  LET p1 == [p EXCEPT !.images = Reverse(p.images)] IN
  IF max_viewable_index(p1) = None THEN Ok(p1)
  ELSE IF p1.index = None THEN Panic(p1)
  ELSE IF p1.index > max_viewable_index(p1) THEN Panic(p1)
  ELSE set_index(p1, max_viewable_index(p1) - p1.index)

\* remove_image with the bound test off by one (index > new_len)
remove_image_off_by_one(p, i) ==
  IF max_viewable(p) = None THEN Ok(p)
  ELSE LET len == max_viewable(p)
           new_len == len - 1
       IN IF ~(i < len) \/ ~(i < Len(p.images)) THEN Panic(p)
          ELSE LET p1 == [p EXCEPT !.images = RemoveAt(p.images, i),
                                   !.art_len = saturating_sub(p.art_len, 1)]
               IN IF new_len = 0 THEN Ok([p1 EXCEPT !.index = None])
                  ELSE IF i > new_len
                       THEN IF p1.index = None THEN Panic(p1)
                            ELSE Ok([p1 EXCEPT !.index = checked_sub(p1.index, 1)])
                       ELSE Ok(p1)

\* remove_image that decrements the index on every removal
remove_image_always_decrement(p, i) ==
  IF max_viewable(p) = None THEN Ok(p)
  ELSE LET len == max_viewable(p)
           new_len == len - 1
       IN IF ~(i < len) \/ ~(i < Len(p.images)) THEN Panic(p)
          ELSE LET p1 == [p EXCEPT !.images = RemoveAt(p.images, i),
                                   !.art_len = saturating_sub(p.art_len, 1)]
               IN IF new_len = 0 THEN Ok([p1 EXCEPT !.index = None])
                  ELSE IF p1.index = None THEN Panic(p1)
                       ELSE Ok([p1 EXCEPT !.index = checked_sub(p1.index, 1)])

\* remove_image that forgets to decrease the artificial length
remove_image_keep_art_len(p, i) ==
  IF max_viewable(p) = None THEN Ok(p)
  ELSE LET len == max_viewable(p)
           new_len == len - 1
       IN IF ~(i < len) \/ ~(i < Len(p.images)) THEN Panic(p)
          ELSE LET p1 == [p EXCEPT !.images = RemoveAt(p.images, i)]
               IN IF new_len = 0 THEN Ok([p1 EXCEPT !.index = None])
                  ELSE IF i >= new_len
                       THEN IF p1.index = None THEN Panic(p1)
                            ELSE Ok([p1 EXCEPT !.index = checked_sub(p1.index, 1)])
                       ELSE Ok(p1)

\* remove_image that lets an image beyond the soft cap take the freed place
remove_image_slide_in(p, i) ==
  IF max_viewable(p) = None THEN Ok(p)
  ELSE LET len == max_viewable(p)
           new_len == IF Len(p.images) > len THEN len ELSE len - 1
       IN IF ~(i < len) \/ ~(i < Len(p.images)) THEN Panic(p)
          ELSE LET p1 == [p EXCEPT !.images = RemoveAt(p.images, i),
                                   !.art_len = new_len]
               IN IF new_len = 0 THEN Ok([p1 EXCEPT !.index = None])
                  ELSE IF i >= new_len
                       THEN IF p1.index = None THEN Panic(p1)
                            ELSE Ok([p1 EXCEPT !.index = checked_sub(p1.index, 1)])
                       ELSE Ok(p1)

remove_image(p, i) ==
  IF max_viewable(p) = None THEN Ok(p)
  ELSE LET len == max_viewable(p)
           new_len == len - 1
       IN IF ~(i < len) \/ ~(i < Len(p.images)) THEN Panic(p)
          ELSE LET p1 == [p EXCEPT !.images = RemoveAt(p.images, i),
                                   !.art_len = saturating_sub(p.art_len, 1)]
               IN IF new_len = 0 THEN Ok([p1 EXCEPT !.index = None])
                  ELSE IF i >= new_len
                       THEN IF p1.index = None THEN Panic(p1)
                            ELSE Ok([p1 EXCEPT !.index = checked_sub(p1.index, 1)])
                       ELSE Ok(p1)

remove_current_image(p) ==
  IF p.index # None THEN remove_image(p, p.index) ELSE Ok(p)

decrement(p, step) ==
  IF p.index # None THEN [p EXCEPT !.index = saturating_sub(p.index, step)] ELSE p

\* increment that does not cap the new index at the last viewable image
increment_uncapped(p, step, checks) ==
  IF p.index = None THEN Ok(p)
  ELSE IF p.index + step > USIZE_MAX /\ checks THEN Panic(p)
  ELSE LET new_index == (p.index + step) % (USIZE_MAX + 1) IN
       IF max_viewable_index(p) = None THEN Panic(p)
       ELSE Ok([p EXCEPT !.index = new_index])

\* i + step is a plain usize addition: it panics when overflow checks are
\* compiled in and wraps around otherwise
increment(p, step, checks) ==
  IF p.index = None THEN Ok(p)
  ELSE IF p.index + step > USIZE_MAX /\ checks THEN Panic(p)
  ELSE LET new_index == (p.index + step) % (USIZE_MAX + 1) IN
       IF max_viewable_index(p) = None THEN Panic(p)
       ELSE IF new_index >= max_viewable_index(p)
            THEN Ok([p EXCEPT !.index = max_viewable_index(p)])
            ELSE Ok([p EXCEPT !.index = new_index])

\* set_actual_maximum whose 0 forgets the cap but keeps the viewable count
set_actual_maximum_zero_keeps_count(p, art_max) ==
  IF art_max = 0
  THEN [p EXCEPT !.art_len_orig = None]
  ELSE LET p1 == [p EXCEPT !.art_len_orig = art_max,
                           !.art_len = Min(art_max, Len(p.images))]
       IN IF p1.index > max_viewable_index(p1)
          THEN [p1 EXCEPT !.index = max_viewable_index(p1)]
          ELSE p1

\* set_actual_maximum that leaves the index above a lowered cap
set_actual_maximum_no_clamp(p, art_max) ==
  IF art_max = 0
  THEN [p EXCEPT !.art_len_orig = None, !.art_len = Len(p.images)]
  ELSE [p EXCEPT !.art_len_orig = art_max,
                 !.art_len = Min(art_max, Len(p.images))]

set_actual_maximum(p, art_max) ==
  IF art_max = 0
  THEN [p EXCEPT !.art_len_orig = None, !.art_len = Len(p.images)]
  ELSE LET p1 == [p EXCEPT !.art_len_orig = art_max,
                           !.art_len = Min(art_max, Len(p.images))]
       IN IF p1.index > max_viewable_index(p1)
          THEN [p1 EXCEPT !.index = max_viewable_index(p1)]
          ELSE p1

\* ------------------------------------------------------------------- ui
\* input events: TextInput {text}, KeyDown {keycode, keymod}, Quit, Window
\* (an expose or resize), MouseButtonUp {Left} and any other event
TextInput(t) == [type |-> "TextInput", key |-> t, shift |-> FALSE]
KeyDown(k) == [type |-> "KeyDown", key |-> k, shift |-> FALSE]
ShiftKeyDown(k) == [type |-> "KeyDown", key |-> k, shift |-> TRUE]
QuitEvent == [type |-> "Quit", key |-> "", shift |-> FALSE]
WindowEvent == [type |-> "Window", key |-> "Exposed", shift |-> FALSE]
MouseLeftUp == [type |-> "MouseButtonUp", key |-> "Left", shift |-> FALSE]
OtherEvent == [type |-> "Other", key |-> "", shift |-> FALSE]

RenderingWindowEvents == {"Exposed", "Resized", "SizeChanged", "Maximized"}

ProcessAction(a, n) == [action |-> a, times |-> n]
\* ProcessAction::default and Register::default
ProcessAction_default == ProcessAction("Noop", 1)

Digits == {"0", "1", "2", "3", "4", "5", "6", "7", "8", "9"}
DigitValue ==
  [d \in Digits |->
     CASE d = "0" -> 0 [] d = "1" -> 1 [] d = "2" -> 2 [] d = "3" -> 3 [] d = "4" -> 4
       [] d = "5" -> 5 [] d = "6" -> 6 [] d = "7" -> 7 [] d = "8" -> 8 [] d = "9" -> 9]

\* the text keys that Normal and MultiNormal map to the same action
TextActions ==
  [c |-> "Copy", d |-> "Trash", D |-> "Delete", f |-> "ToggleFullscreen",
   g |-> "First", G |-> "Last", h |-> "FlipHorizontal", H |-> "PanLeft",
   i |-> "ZoomIn", j |-> "Next", J |-> "PanDown", k |-> "Prev", K |-> "PanUp",
   L |-> "PanRight", m |-> "Move", o |-> "ZoomOut", r |-> "RotateCW",
   R |-> "RotateCCW", v |-> "FlipVertical", w |-> "SkipForward",
   b |-> "SkipBack", z |-> "ToggleFit", Z |-> "CenterImage"]

ShiftKeyActions ==
  [Left |-> "PanLeft", Right |-> "PanRight", Up |-> "PanUp", Down |-> "PanDown"]

NormalKeyActions ==
  [Delete |-> "Delete", F11 |-> "ToggleFullscreen", Escape |-> "Quit",
   PageUp |-> "SkipForward", PageDown |-> "SkipBack", Home |-> "First",
   End |-> "Last", Right |-> "Next", Left |-> "Prev", Up |-> "ZoomIn",
   Down |-> "ZoomOut"]

MultiKeyActions ==
  [Delete |-> "Delete", PageUp |-> "SkipForward", PageDown |-> "SkipBack",
   Right |-> "Next", Left |-> "Prev", Up |-> "ZoomIn", Down |-> "ZoomOut"]

ToggleHelp(u) ==
  [u EXCEPT !.render_help = IF u.render_help = "Normal" THEN "None" ELSE "Normal"]

State_default ==
  [render_infobar |-> TRUE,
   render_help |-> "None",
   fullscreen |-> FALSE,
   mode |-> "Normal",
   last_action |-> ProcessAction_default,
   flip_horizontal |-> FALSE,
   flip_vertical |-> FALSE,
   rot_angle |-> "Up",
   rerender_time |-> FALSE,
   cur_action |-> ProcessAction_default]

rot_clockwise(a) ==
  CASE a = "Up" -> "Right" [] a = "Right" -> "Down" [] a = "Down" -> "Left" [] a = "Left" -> "Up"

rot_clockclockwise(a) ==
  CASE a = "Up" -> "Left" [] a = "Left" -> "Down" [] a = "Down" -> "Right" [] a = "Right" -> "Up"

process_action(u, pa) ==
  IF pa.action \in {"Noop", "Quit", "ReRender", "SwitchMultiNormalMode"}
  THEN u
  ELSE [u EXCEPT !.last_action = pa]

\* the MultiNormalAction and the ui state process_multi_normal_mode leaves
MultiResult(kind, pa, u) == [kind |-> kind, pa |-> pa, ui |-> u]
Repeat(a, n, u) == MultiResult("Repeat", ProcessAction(a, n), u)

process_multi_normal_mode(u, event) ==
  LET times == u.cur_action.times
      key == event.key
      noop == MultiResult("Noop", ProcessAction_default, u)
  IN
  CASE event.type = "Quit" -> MultiResult("Quit", ProcessAction_default, u)
    [] event.type = "TextInput" ->
         IF key \in Digits
         THEN MultiResult("MoreInput", ProcessAction_default,
                [u EXCEPT !.cur_action.times =
                   saturating_add(saturating_mul(u.cur_action.times, 10), DigitValue[key])])
         ELSE IF key \in DOMAIN TextActions THEN Repeat(TextActions[key], times, u)
         ELSE IF key = "?" THEN Repeat("ReRender", times, ToggleHelp(u))
         ELSE IF key = "t" THEN Repeat("ReRender", times, [u EXCEPT !.render_infobar = ~u.render_infobar])
         ELSE IF key = "q" THEN MultiResult("Quit", ProcessAction_default, u)
         ELSE noop
    [] event.type = "KeyDown" ->
         IF event.shift
         THEN IF key \in DOMAIN ShiftKeyActions THEN Repeat(ShiftKeyActions[key], times, u) ELSE noop
         ELSE IF key \in DOMAIN MultiKeyActions THEN Repeat(MultiKeyActions[key], times, u)
         ELSE IF key = "Escape" THEN MultiResult("Cancel", ProcessAction_default, u)
         ELSE IF key = "Period"
              THEN Repeat(u.last_action.action, times, [u EXCEPT !.last_action.times = times])
         ELSE IF key = "Backspace" THEN Repeat("Backspace", 1, u)
         ELSE noop
    [] event.type = "Window" ->
         IF key \in RenderingWindowEvents THEN MultiResult("ReRender", ProcessAction_default, u) ELSE noop
    [] OTHER -> noop

\* the ProcessAction and the ui state process_normal_mode leaves
NormalResult(a, n, u) == [pa |-> ProcessAction(a, n), ui |-> u]

\* process_normal_mode whose repeat key replays the last action once
process_normal_mode_period_once(u, event) ==
  LET key == event.key IN
  CASE event.type = "Quit" -> NormalResult("Quit", 1, u)
    [] event.type = "TextInput" ->
         IF key \in (Digits \ {"0"})
         THEN NormalResult("SwitchMultiNormalMode", 1, [u EXCEPT !.cur_action.times = DigitValue[key]])
         ELSE IF key \in DOMAIN TextActions THEN NormalResult(TextActions[key], 1, u)
         ELSE IF key = "?" THEN NormalResult("ReRender", 1, ToggleHelp(u))
         ELSE IF key = "t" THEN NormalResult("ReRender", 1, [u EXCEPT !.render_infobar = ~u.render_infobar])
         ELSE IF key = "q" THEN NormalResult("Quit", 1, u)
         ELSE IF key = ":" THEN NormalResult("SwitchCommandMode", 1, u)
         ELSE NormalResult("Noop", 1, u)
    [] event.type = "KeyDown" ->
         IF event.shift
         THEN IF key \in DOMAIN ShiftKeyActions THEN NormalResult(ShiftKeyActions[key], 1, u)
              ELSE NormalResult("Noop", 1, u)
         ELSE IF key \in DOMAIN NormalKeyActions THEN NormalResult(NormalKeyActions[key], 1, u)
         ELSE IF key = "Period" THEN NormalResult(u.last_action.action, 1, u)
         ELSE NormalResult("Noop", 1, u)
    [] event.type = "Window" ->
         IF key \in RenderingWindowEvents THEN NormalResult("ReRender", 1, u) ELSE NormalResult("Noop", 1, u)
    [] event.type = "MouseButtonUp" ->
         IF key = "Left" THEN NormalResult("ToggleFit", 1, u) ELSE NormalResult("Noop", 1, u)
    [] OTHER -> NormalResult("Noop", 1, u)

process_normal_mode(u, event) ==
  LET key == event.key IN
  CASE event.type = "Quit" -> NormalResult("Quit", 1, u)
    [] event.type = "TextInput" ->
         IF key \in (Digits \ {"0"})
         THEN NormalResult("SwitchMultiNormalMode", 1, [u EXCEPT !.cur_action.times = DigitValue[key]])
         ELSE IF key \in DOMAIN TextActions THEN NormalResult(TextActions[key], 1, u)
         ELSE IF key = "?" THEN NormalResult("ReRender", 1, ToggleHelp(u))
         ELSE IF key = "t" THEN NormalResult("ReRender", 1, [u EXCEPT !.render_infobar = ~u.render_infobar])
         ELSE IF key = "q" THEN NormalResult("Quit", 1, u)
         ELSE IF key = ":" THEN NormalResult("SwitchCommandMode", 1, u)
         ELSE NormalResult("Noop", 1, u)
    [] event.type = "KeyDown" ->
         IF event.shift
         THEN IF key \in DOMAIN ShiftKeyActions THEN NormalResult(ShiftKeyActions[key], 1, u)
              ELSE NormalResult("Noop", 1, u)
         ELSE IF key \in DOMAIN NormalKeyActions THEN NormalResult(NormalKeyActions[key], 1, u)
         ELSE IF key = "Period" THEN NormalResult(u.last_action.action, u.last_action.times, u)
         ELSE NormalResult("Noop", 1, u)
    [] event.type = "Window" ->
         IF key \in RenderingWindowEvents THEN NormalResult("ReRender", 1, u) ELSE NormalResult("Noop", 1, u)
    [] event.type = "MouseButtonUp" ->
         IF key = "Left" THEN NormalResult("ToggleFit", 1, u) ELSE NormalResult("Noop", 1, u)
    [] OTHER -> NormalResult("Noop", 1, u)

\* the Action process_command_mode returns (KeyboardInput carries the text)
process_command_mode(event) ==
  CASE event.type = "TextInput" -> "KeyboardInput"
    [] event.type = "KeyDown" ->
         IF event.key = "Backspace" THEN "Backspace"
         ELSE IF event.key \in {"Escape", "Return", "Return2", "KpEnter"} THEN "SwitchNormalMode"
         ELSE "Noop"
    [] event.type = "Window" -> IF event.key \in RenderingWindowEvents THEN "ReRender" ELSE "Noop"
    [] OTHER -> "Noop"

\* ----------------------------------------------------------------- sort
SortOrders == {"Alphabetical", "BreadthFirst", "Date", "DepthFirst", "Size"}

\* what the filesystem says about the image paths: two directory depths,
\* file stems shared by neighbouring paths, sizes and modification times
calculate_depth(p) == 2 + (p % 2)
trim_hidden(p) == (p + 1) \div 2
get_size(p) == p \div 2
file_get_date(p) == (NumPaths + 1 - p) \div 2

cmp(a, b) == IF a < b THEN "Less" ELSE IF a > b THEN "Greater" ELSE "Equal"

file_compare(order, a, b) ==
  CASE order = "Size" -> cmp(get_size(b), get_size(a))
    [] order = "Date" -> cmp(file_get_date(b), file_get_date(a))
    [] order = "Alphabetical" -> cmp(trim_hidden(a), trim_hidden(b))
    [] order = "DepthFirst" -> cmp(calculate_depth(b), calculate_depth(a))
    [] order = "BreadthFirst" -> cmp(calculate_depth(a), calculate_depth(b))

\* slice::sort_by is a stable sort: x goes after every element it does not precede
RECURSIVE InsertSorted(_, _, _)
InsertSorted(order, x, sorted) ==
  IF sorted = <<>> THEN <<x>>
  ELSE IF file_compare(order, x, Head(sorted)) = "Less" THEN <<x>> \o sorted
  ELSE <<Head(sorted)>> \o InsertSorted(order, x, Tail(sorted))

RECURSIVE sort_by(_, _)
sort_by(order, s) ==
  IF s = <<>> THEN <<>>
  ELSE InsertSorted(order, s[Len(s)], sort_by(order, SubSeq(s, 1, Len(s) - 1)))

Sorter_new(sort_order, rev) == [sort_order |-> sort_order, reverse |-> rev]

Sorter_sort(sorter, s) ==
  IF sorter.reverse THEN Reverse(sort_by(sorter.sort_order, s)) ELSE sort_by(sorter.sort_order, s)

\* -------------------------------------------------------------- program
\* the program state the handlers work on: ui_state, paths, sorter, the
\* filesystem facts, the overflow-check build flag and the panic flag
WithPaths(st, out) == [st EXCEPT !.paths = out.paths, !.panic = out.panic]
WithPanic(st) == [st EXCEPT !.panic = TRUE]
SetMode(st, m) == [st EXCEPT !.ui.mode = m]

\* plain usize arithmetic: the wrapped value and whether it overflowed
WrapAdd(a, b) == [v |-> (a + b) % (USIZE_MAX + 1), ovf |-> a + b > USIZE_MAX]
WrapSub(a, b) == [v |-> (a - b) % (USIZE_MAX + 1), ovf |-> a < b]
WrapMul(a, b) == [v |-> (a * b) % (USIZE_MAX + 1), ovf |-> a * b > USIZE_MAX]

program_increment(st, step) == WithPaths(st, increment(st.paths, step, st.checks))
program_decrement(st, step) == [st EXCEPT !.paths = decrement(st.paths, step)]

compute_skip_size(images) == Max(1, (Len(images) \div 10) + 1)

skip_forward(st, times) ==
  LET m == WrapMul(compute_skip_size(st.paths.images), times) IN
  IF m.ovf /\ st.checks THEN WithPanic(st) ELSE program_increment(st, m.v)

skip_backward(st, times) ==
  LET m == WrapMul(compute_skip_size(st.paths.images), times) IN
  IF m.ovf /\ st.checks THEN WithPanic(st) ELSE program_decrement(st, m.v)

first(st) == IF st.paths.index # None THEN WithPaths(st, set_index(st.paths, 0)) ELSE st

program_last(st) ==
  IF max_viewable_index(st.paths) # None
  THEN WithPaths(st, set_index(st.paths, max_viewable_index(st.paths)))
  ELSE st

\* one filesystem operation on a path and whether it succeeded; needs_dest:
\* the operation writes into the destination folder
Attempt(st, path, needs_dest) ==
  [path |-> path, ok |-> (needs_dest => st.fs.dest_ok) /\ path \notin st.fs.fail]

\* get_range: whether a slice is returned, and the slice; panic: the
\* unwrap of images.get(new_start..=new_end), which is None for a range
\* that ends more than one position before its start or past the vector
get_range(p, start, end) ==
  IF max_viewable_index(p) = None \/ start > max_viewable_index(p)
  THEN [some |-> FALSE, slice |-> <<>>, panic |-> FALSE]
  ELSE LET new_end == Min(end, max_viewable_index(p)) IN
       IF start > new_end + 1 \/ new_end >= Len(p.images)
       THEN [some |-> FALSE, slice |-> <<>>, panic |-> TRUE]
       ELSE [some |-> TRUE, slice |-> SubSeq(p.images, start + 1, new_end + 1), panic |-> FALSE]

\* the outcome of a batch: "Ok" or "Err", and the program state it leaves
BatchResult(r, st) == [result |-> r, st |-> st]

copy_images(st, amount) ==
  IF amount = 0 THEN BatchResult("Ok", st)
  ELSE IF st.paths.index = None THEN BatchResult("Err", st)
  ELSE LET range == get_range(st.paths, st.paths.index, saturating_add(st.paths.index, amount - 1)) IN
       IF range.panic THEN BatchResult("Err", WithPanic(st))
       ELSE IF ~range.some THEN BatchResult("Err", st)
       ELSE LET st1 == [st EXCEPT !.attempts =
                          [k \in 1..Len(range.slice) |-> Attempt(st, range.slice[k], TRUE)]]
            IN IF \A k \in 1..Len(st1.attempts) : st1.attempts[k].ok
               THEN BatchResult("Ok", st1)
               ELSE BatchResult("Err", st1)

\* min(current_index + amount - 1, max_index) - current_index + 1
total_removes(current_index, amount, max_index) ==
  LET a == WrapAdd(current_index, amount)
      b == WrapSub(a.v, 1)
      c == WrapSub(Min(b.v, max_index), current_index)
      d == WrapAdd(c.v, 1)
  IN [v |-> d.v, ovf |-> a.ovf \/ b.ovf \/ c.ovf \/ d.ovf]

\* the loop of move_images / trash_images / delete_images: n iterations, each
\* acting on the current image and removing it only when the operation
\* succeeded.  needs_dest: the operation builds a destination path first and
\* the batch returns early when that fails.
RECURSIVE batch_loop_remove_always(_, _, _, _)
\* the loop that drops the current image from the registry whether or not its operation succeeded
batch_loop_remove_always(st, n, failures, needs_dest) ==
  IF n = 0 THEN BatchResult(IF failures = 0 THEN "Ok" ELSE "Err", st)
  ELSE IF current_image_path(st.paths) \in {None, -2} THEN BatchResult("Err", WithPanic(st))
  ELSE LET a == Attempt(st, current_image_path(st.paths), needs_dest)
            logged == [st EXCEPT !.attempts = Append(st.attempts, a)]
            st1 == WithPaths(logged, remove_current_image(st.paths))
       IN IF st1.panic THEN BatchResult("Err", st1)
          ELSE batch_loop_remove_always(st1, n - 1, IF a.ok THEN failures ELSE failures + 1, needs_dest)

RECURSIVE batch_loop(_, _, _, _)
batch_loop(st, n, failures, needs_dest) ==
  IF n = 0 THEN BatchResult(IF failures = 0 THEN "Ok" ELSE "Err", st)
  ELSE IF current_image_path(st.paths) \in {None, -2} THEN BatchResult("Err", WithPanic(st))
  ELSE LET a == Attempt(st, current_image_path(st.paths), needs_dest)
            logged == [st EXCEPT !.attempts = Append(st.attempts, a)]
       IN IF needs_dest /\ ~st.fs.dest_ok THEN BatchResult("Err", logged)
          ELSE IF ~a.ok
          THEN batch_loop(logged, n - 1, failures + 1, needs_dest)
          ELSE LET st1 == WithPaths(logged, remove_current_image(st.paths)) IN
               IF st1.panic THEN BatchResult("Err", st1)
               ELSE batch_loop(st1, n - 1, failures, needs_dest)

remove_batch(st, amount, needs_dest) ==
  IF amount = 0 THEN BatchResult("Ok", st)
  ELSE IF st.paths.index = None THEN BatchResult("Err", st)
  ELSE IF max_viewable_index(st.paths) = None THEN BatchResult("Err", WithPanic(st))
  ELSE LET t == total_removes(st.paths.index, amount, max_viewable_index(st.paths)) IN
       IF t.ovf /\ st.checks THEN BatchResult("Err", WithPanic(st))
       ELSE batch_loop(st, t.v, 0, needs_dest)

move_images(st, amount) == remove_batch(st, amount, TRUE)
trash_images(st, amount) == remove_batch(st, amount, FALSE)
delete_images(st, amount) == remove_batch(st, amount, FALSE)

\* Paths::set_index_safe: the index capped at the last viewable image
set_index_safe(p, i) ==
  IF max_viewable_index(p) = None THEN p
  ELSE [p EXCEPT !.index = Min(i, max_viewable_index(p))]

jump_to_image_index(st, i) == [st EXCEPT !.paths = set_index_safe(st.paths, i)]

toggle_fullscreen(st) == [st EXCEPT !.ui.fullscreen = ~st.ui.fullscreen]
flip_vertical(st) == [st EXCEPT !.ui.flip_vertical = ~st.ui.flip_vertical]
flip_horizontal(st) == [st EXCEPT !.ui.flip_horizontal = ~st.ui.flip_horizontal]

\* what dispatch_normal returns: CompleteType and the program state
Complete(st) == [ct |-> "Complete", st |-> st]
Break(st) == [ct |-> "Break", st |-> st]

\* a failed batch that ends the program
FileOpDone_exit_on_error(r) ==
  IF r.st.panic THEN Break(r.st)
  ELSE IF r.result = "Ok"
       THEN Break([r.st EXCEPT !.ui.mode = "Success", !.ui.rerender_time = TRUE])
       ELSE Break(SetMode(r.st, "Exit"))

\* a batch result turned into Mode::Success (with the rerender timer) or Mode::Error
FileOpDone(r) ==
  IF r.st.panic THEN Break(r.st)
  ELSE IF r.result = "Ok"
       THEN Break([r.st EXCEPT !.ui.mode = "Success", !.ui.rerender_time = TRUE])
       ELSE Break(SetMode(r.st, "Error"))

dispatch_normal(st, pa) ==
  LET a == pa.action
      times == pa.times
  IN
  CASE a = "Quit" -> Break(SetMode(st, "Exit"))
    [] a = "ToggleFullscreen" -> Complete(toggle_fullscreen(st))
    [] a = "ReRender" -> Complete(st)
    [] a = "SwitchCommandMode" -> Break(SetMode(st, "Command"))
    [] a = "SwitchMultiNormalMode" -> Break(SetMode(st, "MultiNormal"))
    [] a = "ToggleFit" -> Complete(st)
    [] a = "FlipHorizontal" -> Complete(flip_horizontal(st))
    [] a = "FlipVertical" -> Complete(flip_vertical(st))
    [] a = "CenterImage" -> Complete(st)
    [] a = "Next" -> Complete(program_increment(st, times))
    [] a = "Prev" -> Complete(program_decrement(st, times))
    [] a = "First" -> Complete(first(st))
    [] a = "Last" -> Complete(program_last(st))
    [] a = "SkipForward" -> Complete(skip_forward(st, times))
    [] a = "SkipBack" -> Complete(skip_backward(st, times))
    [] a \in {"ZoomIn", "ZoomOut"} -> Complete(st)
    [] a = "RotateCW" -> Complete([st EXCEPT !.ui.rot_angle = rot_clockwise(st.ui.rot_angle)])
    [] a = "RotateCCW" -> Complete([st EXCEPT !.ui.rot_angle = rot_clockclockwise(st.ui.rot_angle)])
    [] a \in {"PanLeft", "PanRight", "PanUp", "PanDown"} -> Complete(st)
    [] a = "Copy" -> FileOpDone(copy_images(st, times))
    [] a = "Move" -> FileOpDone(move_images(st, times))
    [] a = "Delete" -> FileOpDone(delete_images(st, times))
    [] a = "Trash" -> FileOpDone(trash_images(st, times))
    [] OTHER -> Complete(st)

\* --------------------------------------------------------- command mode
RECURSIVE FindFrom(_, _, _)
\* str::find: the 0-based position of the first c at or after i, None when absent
FindFrom(str, c, i) ==
  IF i >= Len(str) THEN None
  ELSE IF SubSeq(str, i + 1, i + 1) = c THEN i
  ELSE FindFrom(str, c, i + 1)

Commands_from_str(str) ==
  CASE str = "sort" -> "Sort"
    [] str \in {"ng", "newglob"} -> "NewGlob"
    [] str \in {"?", "help"} -> "Help"
    [] str \in {"q", "quit"} -> "Quit"
    [] str \in {"r", "reverse"} -> "Reverse"
    [] str \in {"df", "destfolder"} -> "DestFolder"
    [] str \in {"m", "max"} -> "MaximumImages"
    [] OTHER -> "Err"

parse_user_input(str) ==
  LET command_terminating_index ==
        IF FindFrom(str, " ", 0) # None THEN FindFrom(str, " ", 0) ELSE Len(str)
  IN [command |-> Commands_from_str(SubSeq(str, 1, command_terminating_index)),
      arguments |-> IF Len(str) > command_terminating_index
                    THEN SubSeq(str, command_terminating_index + 2, Len(str))
                    ELSE ""]

\* SortOrder::from_str matches the variant names without regard to case
SortOrder_from_str(str) ==
  CASE str \in {"Alphabetical", "alphabetical"} -> "Alphabetical"
    [] str \in {"BreadthFirst", "breadthfirst"} -> "BreadthFirst"
    [] str \in {"Date", "date"} -> "Date"
    [] str \in {"DepthFirst", "depthfirst"} -> "DepthFirst"
    [] str \in {"Size", "size"} -> "Size"
    [] OTHER -> "Err"

RECURSIVE ParseDigits(_, _)
\* the decimal value of a digit string, None on a non-digit or on overflow
ParseDigits(str, acc) ==
  IF Len(str) = 0 THEN acc
  ELSE IF SubSeq(str, 1, 1) \notin Digits THEN None
  ELSE IF acc * 10 + DigitValue[SubSeq(str, 1, 1)] > USIZE_MAX THEN None
  ELSE ParseDigits(Tail(str), acc * 10 + DigitValue[SubSeq(str, 1, 1)])

\* str::parse::<usize>: digits after an optional plus sign
parse_usize(str) ==
  IF Len(str) = 0 THEN None
  ELSE IF SubSeq(str, 1, 1) = "+"
       THEN (IF Len(str) = 1 THEN None ELSE ParseDigits(Tail(str), 0))
       ELSE ParseDigits(str, 0)

\* iter().position(): the 0-based position of the first x in s, None when absent
position(s, x) ==
  IF \E k \in 1..Len(s) : s[k] = x
  THEN (CHOOSE k \in 1..Len(s) : s[k] = x /\ \A j \in 1..(k - 1) : s[j] # x) - 1
  ELSE None

\* capacity of the channel between the scanning thread and glob_path
ChannelCap == 5

\* the images a glob pattern matches, in the order the glob yields them; the
\* big folder holds more images than the channel holds messages
AllPaths == [k \in 1..NumPaths |-> k]
glob_path(pattern) ==
  CASE pattern = "*" -> [ok |-> TRUE, images |-> AllPaths]
    [] pattern = "sub/*" -> [ok |-> TRUE, images |-> Tail(AllPaths)]
    [] pattern = "big/*" -> [ok |-> TRUE, images |-> [k \in 1..(ChannelCap + 1) |-> k]]
    [] OTHER -> [ok |-> FALSE, images |-> <<>>]

\* path_to_glob fails when the shell expansion of the argument fails
path_to_glob(arg) == IF arg = "$UNSET" THEN [ok |-> FALSE, path |-> ""] ELSE [ok |-> TRUE, path |-> arg]

\* newglob that leaves the index where reload_images put it
newglob_index_reset(st, path_to_newglob) ==
  IF ~path_to_glob(path_to_newglob).ok THEN SetMode(st, "Error")
  ELSE IF ~glob_path(path_to_glob(path_to_newglob).path).ok THEN SetMode(st, "Error")
  ELSE IF current_image_path(st.paths) = -2 THEN WithPanic(st)
  ELSE
    LET p1 == reload_images(st.paths, glob_path(path_to_glob(path_to_newglob).path).images)
        p2 == [p1 EXCEPT !.base_dir = path_to_newglob,
                         !.images = Sorter_sort(st.sorter, p1.images)]
    IN [st EXCEPT !.paths = p2, !.ui.mode = "Success", !.ui.rerender_time = TRUE]

\* newglob once glob_path has returned the images found
newglob_loaded(st, path_to_newglob, new_images) ==
  IF current_image_path(st.paths) = -2 THEN WithPanic(st)
  ELSE
    LET target == current_image_path(st.paths)
        p1 == reload_images(st.paths, new_images)
        p2 == [p1 EXCEPT !.base_dir = path_to_newglob,
                         !.images = Sorter_sort(st.sorter, p1.images)]
        new_index == position(p2.images, target)
        out == IF target # None /\ new_index # None /\ max_viewable_index(p2) # None
               THEN (IF new_index > max_viewable_index(p2) THEN set_index(p2, 0)
                     ELSE set_index(p2, new_index))
               ELSE Ok(p2)
        st1 == WithPaths(st, out)
    IN IF st1.panic THEN st1
       ELSE [st1 EXCEPT !.ui.mode = "Success", !.ui.rerender_time = TRUE]

newglob(st, path_to_newglob) ==
  IF ~path_to_glob(path_to_newglob).ok THEN SetMode(st, "Error")
  ELSE IF ~glob_path(path_to_glob(path_to_newglob).path).ok THEN SetMode(st, "Error")
  ELSE newglob_loaded(st, path_to_newglob, glob_path(path_to_glob(path_to_newglob).path).images)

\* ------------------------------------------------- glob_path, the scan
\* SendStatus
SendStatus_Started == [tag |-> "Started", n |-> 0]
SendStatus_Progress(n) == [tag |-> "Progress", n |-> n]
SendStatus_Complete(n) == [tag |-> "Complete", n |-> n]

\* fg: where glob_path is ("idle" outside of it, "recv" in its loop, "join"
\* at the end of the thread scope, "joined" after it); worker: where incremental_glob is;
\* tx: the Sender, a local of glob_path, is alive; chan: the messages sent
\* and not yet received; sent, received: every message sent, received
NoScan ==
  [fg |-> "idle", worker |-> "idle", tx |-> FALSE, path |-> "", matches |-> <<>>,
   new_images |-> <<>>, chan |-> <<>>, sent |-> <<>>, received |-> <<>>,
   overlay |-> SendStatus_Started]

\* glob_path up to the spawn of the scanning thread
glob_path_spawn(path) ==
  [NoScan EXCEPT !.fg = "recv", !.worker = "spawned", !.tx = TRUE, !.path = path,
                 !.matches = glob_path(path).images]

\* a send on the bounded channel returns once there is room
can_send_unbounded(sc) == TRUE
can_send(sc) == Len(sc.chan) < ChannelCap
send(sc, m) == [sc EXCEPT !.chan = Append(@, m), !.sent = Append(@, m)]

\* the scanning thread can take its next step
worker_enabled(sc) == sc.worker \in {"spawned", "walk"} /\ can_send(sc)

\* a scanning thread that reports the end of the scan only when it found images
incremental_glob_quiet(sc) ==
  IF sc.worker = "spawned" THEN [send(sc, SendStatus_Started) EXCEPT !.worker = "walk"]
  ELSE IF Len(sc.new_images) < Len(sc.matches)
  THEN LET found == Append(sc.new_images, sc.matches[Len(sc.new_images) + 1])
       IN send([sc EXCEPT !.new_images = found], SendStatus_Progress(Len(found)))
  ELSE IF sc.new_images = <<>> THEN [sc EXCEPT !.worker = "done"]
  ELSE [send(sc, SendStatus_Complete(Len(sc.new_images))) EXCEPT !.worker = "done"]

\* one step of the scanning thread: Started, then every match pushed and
\* reported with Progress, then Complete
incremental_glob(sc) ==
  IF sc.worker = "spawned" THEN [send(sc, SendStatus_Started) EXCEPT !.worker = "walk"]
  ELSE IF Len(sc.new_images) < Len(sc.matches)
  THEN LET found == Append(sc.new_images, sc.matches[Len(sc.new_images) + 1])
       IN send([sc EXCEPT !.new_images = found], SendStatus_Progress(Len(found)))
  ELSE [send(sc, SendStatus_Complete(Len(sc.new_images))) EXCEPT !.worker = "done"]

\* rx.recv() returns a message, or an error once the channel is empty and
\* its Sender dropped, and blocks otherwise
recv_ready(sc) == sc.chan # <<>> \/ ~sc.tx

\* an iteration of the loop of glob_path that goes on after Complete
glob_path_recv_on(st, sc) ==
  IF sc.chan = <<>> THEN [st |-> st, sc |-> sc]
  ELSE [st |-> st,
        sc |-> [sc EXCEPT !.chan = Tail(@), !.received = Append(@, Head(sc.chan)),
                          !.overlay = Head(sc.chan)]]

\* an iteration of the loop of glob_path that shows the images found so far
glob_path_recv_partial(st, sc) ==
  IF sc.chan = <<>> THEN [st |-> st, sc |-> sc]
  ELSE LET m == Head(sc.chan)
           sc1 == [sc EXCEPT !.chan = Tail(@), !.received = Append(@, m)]
       IN CASE m.tag = "Complete" -> [st |-> st, sc |-> [sc1 EXCEPT !.fg = "join"]]
            [] m.tag = "Progress" ->
                 [st |-> [st EXCEPT !.paths = reload_images(st.paths, SubSeq(sc.matches, 1, m.n))],
                  sc |-> [sc1 EXCEPT !.overlay = m]]
            [] OTHER -> [st |-> st, sc |-> [sc1 EXCEPT !.overlay = m]]

\* an iteration of the loop of glob_path: the overlay shows Started and
\* Progress, Complete leaves the loop, an error is printed and the loop goes on
glob_path_recv(st, sc) ==
  IF sc.chan = <<>> THEN [st |-> st, sc |-> sc]
  ELSE LET m == Head(sc.chan)
           sc1 == [sc EXCEPT !.chan = Tail(@), !.received = Append(@, m)]
       IN CASE m.tag = "Complete" -> [st |-> st, sc |-> [sc1 EXCEPT !.fg = "join"]]
            [] OTHER -> [st |-> st, sc |-> [sc1 EXCEPT !.overlay = m]]

\* the scope joined the scanning thread: glob_path returns and newglob goes on
glob_path_joined(st, sc) ==
  IF sc.new_images = <<>> THEN SetMode(st, "Error")
  ELSE newglob_loaded(st, sc.path, sc.new_images)

program_sort(st, arguments) ==
  IF arguments = ""
  THEN [st EXCEPT !.paths.images = Sorter_sort(st.sorter, st.paths.images)]
  ELSE IF SortOrder_from_str(arguments) = "Err" THEN SetMode(st, "Command")
  ELSE
    LET st1 == [st EXCEPT !.sorter.sort_order = SortOrder_from_str(arguments)]
        p1 == [st1.paths EXCEPT !.images = Sorter_sort(st1.sorter, st1.paths.images)]
        \* the current path is read after the sort
        target_path == current_image_path(p1)
    IN IF target_path = -2 THEN WithPanic([st1 EXCEPT !.paths = p1])
       ELSE IF target_path = None \/ max_viewable_index(p1) = None THEN [st1 EXCEPT !.paths = p1]
       ELSE IF position(p1.images, target_path) <= max_viewable_index(p1)
            THEN WithPaths(st1, set_index(p1, position(p1.images, target_path)))
            ELSE WithPaths(st1, set_index(p1, 0))

\* maximum_viewable that drops the cap when its argument is not a number
maximum_viewable_clear_on_error(st, max) ==
  IF parse_usize(max) = None
  THEN [SetMode(st, "Error") EXCEPT !.paths = set_actual_maximum(st.paths, 0)]
  ELSE [st EXCEPT !.paths = set_actual_maximum(st.paths, parse_usize(max))]

maximum_viewable(st, max) ==
  IF parse_usize(max) = None THEN SetMode(st, "Error")
  ELSE [st EXCEPT !.paths = set_actual_maximum(st.paths, parse_usize(max))]

\* shellexpand::full and the removal of escape characters, on plain paths
expand_dest(arg) == IF arg = "$UNSET" THEN [ok |-> FALSE, path |-> ""] ELSE [ok |-> TRUE, path |-> arg]

\* run_command_mode from the point where get_command has returned the line
execute_command(st0, line) ==
  LET st == SetMode(st0, "Normal")
      parsed == parse_user_input(line)
      command == parsed.command
      arguments == parsed.arguments
  IN
  IF line = "" THEN st
  ELSE
  CASE command = "Err" -> SetMode(st, "Error")
    [] command = "NewGlob" ->
         IF arguments = "" THEN SetMode(st, "Error") ELSE newglob(st, arguments)
    [] command = "Help" ->
         [st EXCEPT !.ui.render_help = IF st.ui.render_help = "Command" THEN "None" ELSE "Command"]
    [] command = "Quit" -> SetMode(st, "Exit")
    [] command = "Reverse" -> WithPaths(st, reverse(st.paths))
    [] command = "DestFolder" ->
         IF arguments = "" THEN SetMode(st, "Error")
         ELSE IF expand_dest(arguments).ok
              THEN [st EXCEPT !.paths.dest_folder = expand_dest(arguments).path,
                              !.ui.mode = "Success",
                              !.ui.rerender_time = TRUE]
              ELSE SetMode(st, "Error")
    [] command = "MaximumImages" ->
         IF arguments = "" THEN SetMode(st, "Error") ELSE maximum_viewable(st, arguments)
    [] command = "Sort" -> program_sort(st, arguments)

\* ------------------------------------------------------------- the state
VARIABLES
  paths,            \* Program.paths: the registry
  ui,               \* Program.ui_state
  sorter,           \* Program.sorter
  fs,               \* the filesystem: the paths whose operations fail, the destination folder
  queue,            \* the events waiting in the SDL event pump
  pc,               \* where the run loop is: run, normal, multi, command, done
  complete_action,  \* the local of run_multi_normal_mode
  input,            \* the local of get_command
  nevents,          \* how many events the user has produced
  owed,             \* the action keyed in MultiNormal that the register has yet to dispatch
  overflow_checks,  \* whether the build panics on integer overflow
  panicked,         \* the process died in a panic
  last,             \* the step that produced this state, and the state before it
  scan              \* the discovery scan of glob_path: worker, channel and receive loop

vars == <<paths, ui, sorter, fs, queue, pc, complete_action, input, nevents, owed,
          overflow_checks, panicked, last, scan>>
loopvars == <<ui, sorter, fs, queue, pc, complete_action, input, nevents, owed, scan>>

NoAction == ProcessAction("None", 0)

\* ------------------------------------------------- the registry driven directly
PathsInit ==
  /\ \E imgs \in ImageLists, cap \in CapInputs :
       /\ paths = with_maximum_viewable(PathsBuilder_new(imgs), cap)
       /\ last = [op |-> "build", arg |-> cap, pre |-> PathsBuilder_new(imgs),
                  twice |-> FALSE, origin |-> PathsBuilder_new(imgs)]
  /\ overflow_checks \in BOOLEAN
  /\ panicked = FALSE
  /\ ui = State_default
  /\ sorter = Sorter_new("DepthFirst", FALSE)
  /\ fs = [fail |-> {}, dest_ok |-> TRUE]
  /\ queue = <<>>
  /\ pc = "run"
  /\ complete_action = FALSE
  /\ input = ""
  /\ nevents = 0
  /\ owed = NoAction
  /\ scan = NoScan

\* a call of the registry; twice: it is the second of two reverse calls in
\* a row, and origin is then the registry before the first of them
Call(op, arg, out) ==
  /\ ~panicked
  /\ paths' = out.paths
  /\ panicked' = out.panic
  /\ last' = [op |-> op, arg |-> arg, pre |-> paths,
               twice |-> op = "reverse" /\ last.op = "reverse",
               origin |-> IF op = "reverse" /\ last.op = "reverse" THEN last.pre ELSE paths]
  /\ UNCHANGED <<overflow_checks, loopvars>>

Increment == \E step \in StepInputs : Call("increment", step, increment(paths, step, overflow_checks))
Decrement == \E step \in StepInputs : Call("decrement", step, Ok(decrement(paths, step)))
RemoveCurrentImage == Call("remove_current_image", 0, remove_current_image(paths))
SetActualMaximum == \E n \in CapInputs : Call("set_actual_maximum", n, Ok(set_actual_maximum(paths, n)))
ReloadImages == \E new \in ImageLists : Call("reload_images", new, Ok(reload_images(paths, new)))
ReverseImages == Call("reverse", 0, reverse(paths))

PathsNext ==
  \/ Increment
  \/ Decrement
  \/ RemoveCurrentImage
  \/ SetActualMaximum
  \/ ReloadImages
  \/ ReverseImages

PathsSpec == PathsInit /\ [][PathsNext]_vars

\* ------------------- the registry driven directly, moves, removals and caps
\* a registry built on at least one image
MoveInit == PathsInit /\ Len(paths.images) > 0

MoveNext ==
  \/ Increment
  \/ Decrement
  \/ RemoveCurrentImage
  \/ SetActualMaximum

MoveSpec == MoveInit /\ [][MoveNext]_vars

\* ------------------------------------- the registry driven directly, ranges read
\* bounds of the ranges asked for
RangeInputs == (0..MaxImages) \cup {USIZE_MAX}

GetRange ==
  \E start \in RangeInputs, end \in RangeInputs :
    Call("get_range", <<start, end>>,
         [paths |-> paths, panic |-> get_range(paths, start, end).panic])

RangeNext ==
  \/ PathsNext
  \/ GetRange

RangeSpec == PathsInit /\ [][RangeNext]_vars

\* ------------------------- the registry driven directly, any image removed
\* remove_image called with an index its assertion accepts
RemoveImage ==
  \E i \in 0..(MaxImages - 1) :
    /\ max_viewable(paths) # None
    /\ i < max_viewable(paths)
    /\ Call("remove_image", i, remove_image(paths, i))

RemoveNext ==
  \/ PathsNext
  \/ RemoveImage

RemoveSpec == PathsInit /\ [][RemoveNext]_vars

\* ------------------------------------------------------------ the run loop
\* most events the user produces, and most that wait in the event pump
MaxEvents == 4
MaxQueue == 3

\* the keys pressed in Normal and MultiNormal mode
KeyEvents ==
  {TextInput("2"), TextInput("j"), TextInput("k"), TextInput("c"), TextInput(":"),
   TextInput("q"), KeyDown("Period"), KeyDown("Backspace"), KeyDown("Escape"), OtherEvent}

\* the command line arguments
InitFiles == {<<>>, AllPaths}
InitCaps == {0, 2}
InitSorters == {Sorter_new("DepthFirst", FALSE)}
InitFs == {[fail |-> {1}, dest_ok |-> TRUE]}

Bundle ==
  [ui |-> ui, paths |-> paths, sorter |-> sorter, fs |-> fs,
   checks |-> overflow_checks, panic |-> FALSE, attempts |-> <<>>]

Commit(st) ==
  /\ ui' = st.ui
  /\ paths' = st.paths
  /\ sorter' = st.sorter
  /\ panicked' = st.panic

\* no prompt is open, or it was not opened with ':'
NoEntry == [opened |-> FALSE]
PromptOpened(entry) == "paths" \in DOMAIN entry

\* entry: the program as it was when the key that opened the prompt was
\* handled, kept while the prompt is open and until the line is processed
Step(op, event, pa, kind, bulk) ==
  [op |-> op, arg |-> event, pre |-> Bundle, pre_owed |-> owed, line |-> input,
   pa |-> pa, kind |-> kind, bulk |-> bulk, attempts |-> <<>>, mid |-> paths,
   entry |-> IF ui.mode = "Command" /\ ~(last.op = "CommandEvent" /\ last.kind = "finish")
             THEN last.entry ELSE NoEntry]

\* Program::init, for the files found, the caps asked for and the filesystems given
ProgramInit(filess, caps, fss) ==
  /\ \E files \in filess, cap \in caps, so \in InitSorters :
       /\ sorter = so
       /\ paths = with_maximum_viewable(PathsBuilder_new(Sorter_sort(so, files)), cap)
  /\ fs \in fss
  /\ overflow_checks \in BOOLEAN
  /\ ui = State_default
  /\ queue = <<>>
  /\ pc = "run"
  /\ complete_action = FALSE
  /\ input = ""
  /\ nevents = 0
  /\ owed = NoAction
  /\ scan = NoScan
  /\ panicked = FALSE
  /\ last = [op |-> "init", arg |-> OtherEvent, pre |-> 0, pre_owed |-> NoAction, line |-> "",
             pa |-> NoAction, kind |-> "", bulk |-> NoAction, attempts |-> <<>>, mid |-> paths,
             entry |-> NoEntry]

Init == ProgramInit(InitFiles, InitCaps, InitFs)

Running == pc # "done" /\ ~panicked

\* the user produces an event
Produce(events) ==
  /\ Running
  /\ nevents < MaxEvents
  /\ Len(queue) < MaxQueue
  /\ \E e \in events : queue' = Append(queue, e)
  /\ nevents' = nevents + 1
  /\ UNCHANGED <<paths, ui, sorter, fs, scan, pc, complete_action, input, owed,
                 overflow_checks, panicked, last>>

Press == Produce(KeyEvents)

\* one turn of the loop of Program::run
RunStep ==
  /\ Running
  /\ pc = "run"
  /\ pc' = CASE ui.mode = "Normal" -> "normal"
             [] ui.mode = "MultiNormal" -> "multi"
             [] ui.mode = "Command" -> "command"
             [] ui.mode \in {"Error", "Success"} -> "run"
             [] ui.mode = "Exit" -> "done"
  /\ ui' = CASE ui.mode \in {"Error", "Success"} -> [ui EXCEPT !.mode = "Normal"]
             [] ui.mode = "Command" -> [ui EXCEPT !.render_infobar = TRUE]
             [] OTHER -> ui
  /\ complete_action' = FALSE
  /\ input' = ""
  /\ last' = Step("RunStep", OtherEvent, NoAction, ui.mode, NoAction)
  /\ UNCHANGED <<paths, sorter, fs, scan, queue, nevents, owed, overflow_checks, panicked>>

\* the body of the for loop of run_normal_mode, for one event
NormalEvent ==
  /\ Running
  /\ pc = "normal"
  /\ queue # <<>>
  /\ LET event == Head(queue)
         r == process_normal_mode(ui, event)
         d1 == dispatch_normal([Bundle EXCEPT !.ui = process_action(r.ui, r.pa)], r.pa)
         \* were we just in multi mode
         bulk == d1.ct = "Complete" /\ ~d1.st.panic /\ d1.st.ui.cur_action.action # "Noop"
         d2 == dispatch_normal(d1.st, d1.st.ui.cur_action)
         st == IF bulk
               THEN (IF d2.st.panic THEN d2.st
                     ELSE [d2.st EXCEPT !.ui.cur_action = ProcessAction_default])
               ELSE d1.st
     IN /\ Commit(st)
        /\ pc' = IF d1.ct = "Break" \/ (bulk /\ d2.ct = "Break") THEN "run" ELSE "normal"
        /\ owed' = IF bulk THEN NoAction ELSE owed
        /\ last' = [Step("NormalEvent", event, r.pa, "",
                         IF bulk THEN d1.st.ui.cur_action ELSE NoAction)
                      EXCEPT !.attempts = st.attempts,
                             !.mid = IF bulk THEN d1.st.paths ELSE paths,
                             !.entry = IF r.pa.action = "SwitchCommandMode" THEN Bundle ELSE NoEntry]
  /\ queue' = Tail(queue)
  /\ UNCHANGED <<fs, scan, complete_action, input, nevents, overflow_checks>>

\* run_normal_mode finds the event pump empty and the rerender timer expired
NormalTimeout ==
  /\ Running
  /\ pc = "normal"
  /\ queue = <<>>
  /\ ui.rerender_time
  /\ ui' = [ui EXCEPT !.rerender_time = FALSE, !.mode = "Normal"]
  /\ pc' = "run"
  /\ last' = Step("NormalTimeout", OtherEvent, NoAction, "", NoAction)
  /\ UNCHANGED <<paths, sorter, fs, scan, queue, complete_action, input, nevents, owed,
                 overflow_checks, panicked>>

\* the body of the for loop of run_multi_normal_mode, for one event
MultiEvent ==
  /\ Running
  /\ pc = "multi"
  /\ queue # <<>>
  /\ LET event == Head(queue)
         r == process_multi_normal_mode(ui, event)
         u1 == process_action(r.ui, r.pa)
         st0 == [Bundle EXCEPT !.ui = r.ui]
         st1 == [Bundle EXCEPT !.ui = u1]
         requested == WrapSub(u1.cur_action.times, 1)
         buffered == r.kind = "Repeat" /\ r.pa.action \notin {"Backspace", "Last"}
         st == CASE r.kind = "MoreInput" -> st0
                 [] r.kind = "Cancel" -> SetMode(st0, "Normal")
                 [] r.kind = "Repeat" /\ r.pa.action = "Backspace" ->
                      [st1 EXCEPT !.ui.cur_action.times = u1.cur_action.times \div 10]
                 [] r.kind = "Repeat" /\ r.pa.action = "Last" ->
                      IF requested.ovf /\ overflow_checks THEN WithPanic(st1)
                      ELSE SetMode(jump_to_image_index(st1, requested.v), "Normal")
                 [] buffered ->
                      [st1 EXCEPT !.ui.cur_action.action = r.pa.action, !.ui.mode = "Normal"]
                 [] r.kind = "SwitchBackNormalMode" -> SetMode(st0, "Normal")
                 [] r.kind = "Quit" -> SetMode(st0, "Exit")
                 [] OTHER -> st0
     IN /\ Commit(st)
        /\ complete_action' = ~(r.kind = "MoreInput" \/ (r.kind = "Repeat" /\ r.pa.action = "Backspace"))
        /\ owed' = IF buffered /\ r.pa.action # "Noop" /\ owed = NoAction THEN r.pa ELSE owed
        /\ last' = Step("MultiEvent", event, IF r.kind = "Repeat" THEN r.pa ELSE NoAction,
                        r.kind, NoAction)
  /\ queue' = Tail(queue)
  /\ pc' = "multi"
  /\ UNCHANGED <<fs, scan, input, nevents, overflow_checks>>

\* run_multi_normal_mode finds the event pump empty after a completing event
MultiPollEnd ==
  /\ Running
  /\ pc = "multi"
  /\ queue = <<>>
  /\ complete_action
  /\ pc' = "run"
  /\ last' = Step("MultiPollEnd", OtherEvent, NoAction, "", NoAction)
  /\ UNCHANGED <<paths, ui, sorter, fs, scan, queue, complete_action, input, nevents, owed,
                 overflow_checks, panicked>>

\* the body of the for loop of get_command, for one event; the event that
\* ends the line runs the rest of run_command_mode
CommandEvent ==
  /\ Running
  /\ pc = "command"
  /\ queue # <<>>
  /\ LET event == Head(queue)
         a == process_command_mode(event)
         pushed == input \o event.key
         typed == IF Len(pushed) >= 1 /\ SubSeq(pushed, 1, 1) = ":" THEN Tail(pushed) ELSE pushed
         finish == a = "SwitchNormalMode" \/ (a = "Backspace" /\ input = "")
     IN /\ input' = CASE finish -> input
                      [] a = "Backspace" -> SubSeq(input, 1, Len(input) - 1)
                      [] a = "KeyboardInput" -> typed
                      [] OTHER -> input
        /\ Commit(IF finish THEN execute_command(Bundle, input)
                  ELSE IF a \in {"Backspace", "KeyboardInput"} THEN SetMode(Bundle, "Command")
                  ELSE Bundle)
        /\ pc' = IF finish THEN "run" ELSE "command"
        /\ last' = Step("CommandEvent", event, ProcessAction(a, 1),
                        IF finish THEN "finish" ELSE "", NoAction)
  /\ queue' = Tail(queue)
  /\ UNCHANGED <<fs, scan, complete_action, nevents, owed, overflow_checks>>

Next ==
  \/ Press
  \/ RunStep
  \/ NormalEvent
  \/ NormalTimeout
  \/ MultiEvent
  \/ MultiPollEnd
  \/ CommandEvent

Spec == Init /\ [][Next]_vars

\* ------------------------------------------------ the run loop, command lines typed
\* the text and keys typed at the command prompt
CommandEvents ==
  {TextInput(":"), TextInput("sort"), TextInput("sort size"), TextInput("sort bogus"),
   TextInput("r"), TextInput("j"), KeyDown("Return"), KeyDown("Backspace")}

TypeCommand == Produce(CommandEvents)

CmdNext ==
  \/ TypeCommand
  \/ RunStep
  \/ NormalEvent
  \/ CommandEvent

CmdSpec == Init /\ [][CmdNext]_vars

\* ---------------------------------------- the run loop, failing commands typed
\* command lines that fail, and a key that moves the index
BadCommandEvents ==
  {TextInput(":"), TextInput("bogus"), TextInput("ng"), TextInput("ng zzz"),
   TextInput("df"), TextInput("m"), TextInput("m x"), TextInput("j"), KeyDown("Return")}

TypeBadCommand == Produce(BadCommandEvents)

BadCmdNext ==
  \/ TypeBadCommand
  \/ RunStep
  \/ NormalEvent
  \/ CommandEvent

BadCmdSpec == Init /\ [][BadCmdNext]_vars

\* ------------------------------------------------ the run loop, counts typed
\* the digits, the keys that edit or drop the count, and an action key
DigitEvents ==
  {TextInput("0"), TextInput("1"), TextInput("2"), TextInput("3"), TextInput("9"),
   TextInput("j"), KeyDown("Backspace"), KeyDown("Escape")}

TypeDigits == Produce(DigitEvents)

DigitInit == ProgramInit({AllPaths}, {0}, InitFs)

DigitNext ==
  \/ TypeDigits
  \/ RunStep
  \/ NormalEvent
  \/ MultiEvent
  \/ MultiPollEnd

DigitSpec == DigitInit /\ [][DigitNext]_vars

\* ------------------------------------------- the run loop, file operations keyed
\* the keys of the batch operations, a count, a move and a command that fails
FileEvents ==
  {TextInput("2"), TextInput("c"), TextInput("m"), TextInput("D"),
   TextInput(":"), TextInput("bogus"), KeyDown("Return")}

\* filesystems on which one image cannot be read or removed, or the
\* destination folder cannot be made
FileFs ==
  {[fail |-> {1}, dest_ok |-> TRUE], [fail |-> {NumPaths}, dest_ok |-> TRUE],
   [fail |-> {}, dest_ok |-> FALSE]}

KeyFileOps == Produce(FileEvents)

FileInit == ProgramInit({AllPaths}, InitCaps, FileFs)

FileNext ==
  \/ KeyFileOps
  \/ RunStep
  \/ NormalEvent
  \/ NormalTimeout
  \/ MultiEvent
  \/ MultiPollEnd
  \/ CommandEvent

FileSpec == FileInit /\ [][FileNext]_vars

\* ------------------------------- the run loop, keys typed one after the other
\* most events of a user who waits for each key to be handled
MaxTyped == 7

\* delete, and the max and reverse commands
SlowEvents ==
  {TextInput("D"), TextInput(":"), TextInput("m 0"), TextInput("r"), KeyDown("Return")}

\* the user produces an event once the event pump is empty
TypeSlowly ==
  /\ Running
  /\ queue = <<>>
  /\ nevents < MaxTyped
  /\ \E e \in SlowEvents : queue' = <<e>>
  /\ nevents' = nevents + 1
  /\ UNCHANGED <<paths, ui, sorter, fs, scan, pc, complete_action, input, owed,
                 overflow_checks, panicked, last>>

\* three images of which one is viewable, and a filesystem without failures
SlowInit == ProgramInit({AllPaths}, {1}, {[fail |-> {}, dest_ok |-> TRUE]})

SlowNext ==
  \/ TypeSlowly
  \/ RunStep
  \/ NormalEvent
  \/ NormalTimeout
  \/ CommandEvent

SlowSpec == SlowInit /\ [][SlowNext]_vars

\* ------------------------------ the run loop, the prompt opened and left
\* the keys that toggle the info bar and the help, open the prompt, type
\* into it and leave it
PromptEvents ==
  {TextInput("t"), TextInput("?"), TextInput(":"), TextInput("j"),
   KeyDown("Return"), KeyDown("Escape"), KeyDown("Backspace")}

TypePrompt == Produce(PromptEvents)

PromptInit == ProgramInit({AllPaths}, InitCaps, InitFs)

PromptNext ==
  \/ TypePrompt
  \/ RunStep
  \/ NormalEvent
  \/ CommandEvent

PromptSpec == PromptInit /\ [][PromptNext]_vars

\* --------------------------------------- the run loop, new globs loaded
\* a key that moves the index and the newglob command with globs that match
\* all images, the images of a subfolder, and nothing
NewGlobEvents ==
  {TextInput("j"), TextInput(":"), TextInput("ng *"), TextInput("ng sub/*"),
   TextInput("ng zzz"), KeyDown("Return")}

TypeNewGlob == Produce(NewGlobEvents)

\* started on no image, on the images of the subfolder or on all images
NewGlobInit == ProgramInit({<<>>, Tail(AllPaths), AllPaths}, InitCaps, InitFs)

NewGlobNext ==
  \/ TypeNewGlob
  \/ RunStep
  \/ NormalEvent
  \/ NormalTimeout
  \/ CommandEvent

NewGlobSpec == NewGlobInit /\ [][NewGlobNext]_vars

\* ------------------------------------ the run loop, skips keyed with counts
\* a digit, the skip keys and a key without an action
SkipEvents == {TextInput("9"), TextInput("w"), TextInput("b"), TextInput("x")}

\* the user produces an event once the event pump is empty
TypeSkips ==
  /\ Running
  /\ queue = <<>>
  /\ nevents < MaxTyped
  /\ \E e \in SkipEvents : queue' = <<e>>
  /\ nevents' = nevents + 1
  /\ UNCHANGED <<paths, ui, sorter, fs, scan, pc, complete_action, input, owed,
                 overflow_checks, panicked, last>>

\* started on a few images or on a folder of many
SkipInit == ProgramInit({AllPaths, [k \in 1..ManyImages |-> k]}, {0}, InitFs)

SkipNext ==
  \/ TypeSkips
  \/ RunStep
  \/ NormalEvent
  \/ MultiEvent
  \/ MultiPollEnd

SkipSpec == SkipInit /\ [][SkipNext]_vars

\* ------------------------------------------- newglob, the scan of a glob
\* globs that match all images, the images of a subfolder, nothing and a
\* folder of many images, and an argument that does not expand
ScanPatterns == {"*", "sub/*", "zzz", "big/*", "$UNSET"}

\* newglob up to the spawn of the scanning thread in glob_path
StartScan ==
  /\ Running
  /\ scan.fg = "idle"
  /\ \E arg \in ScanPatterns :
       IF path_to_glob(arg).ok
       THEN /\ scan' = glob_path_spawn(path_to_glob(arg).path)
            /\ UNCHANGED <<paths, ui, sorter, panicked>>
       ELSE /\ Commit(SetMode(Bundle, "Error"))
            /\ UNCHANGED scan
  /\ last' = Step("StartScan", OtherEvent, NoAction, "", NoAction)
  /\ UNCHANGED <<fs, queue, pc, complete_action, input, nevents, owed, overflow_checks>>

\* the scanning thread takes a step, unless it waits in a send
WorkerStep ==
  /\ Running
  /\ worker_enabled(scan)
  /\ scan' = incremental_glob(scan)
  /\ UNCHANGED <<paths, ui, sorter, fs, queue, pc, complete_action, input, nevents, owed,
                 overflow_checks, panicked, last>>

\* rx.recv() returns in the loop of glob_path
FgRecv ==
  /\ Running
  /\ scan.fg = "recv"
  /\ recv_ready(scan)
  /\ Commit(glob_path_recv(Bundle, scan).st)
  /\ scan' = glob_path_recv(Bundle, scan).sc
  /\ UNCHANGED <<fs, queue, pc, complete_action, input, nevents, owed, overflow_checks, last>>

\* the thread scope ends once the scanning thread returned
JoinScan ==
  /\ Running
  /\ scan.fg = "join"
  /\ scan.worker = "done"
  /\ scan' = [scan EXCEPT !.fg = "joined"]
  /\ UNCHANGED <<paths, ui, sorter, fs, queue, pc, complete_action, input, nevents, owed,
                 overflow_checks, panicked, last>>

\* glob_path returns and newglob swaps the images in
FinishScan ==
  /\ Running
  /\ scan.fg = "joined"
  /\ Commit(glob_path_joined(Bundle, scan))
  /\ scan' = [scan EXCEPT !.fg = "idle", !.worker = "idle", !.tx = FALSE, !.chan = <<>>]
  /\ last' = Step("FinishScan", OtherEvent, NoAction, "", NoAction)
  /\ UNCHANGED <<fs, queue, pc, complete_action, input, nevents, owed, overflow_checks>>

\* started on no image or on all images
ScanInit == ProgramInit({<<>>, AllPaths}, InitCaps, InitFs)

ScanNext ==
  \/ StartScan
  \/ WorkerStep
  \/ FgRecv
  \/ JoinScan
  \/ FinishScan

ScanSpec == ScanInit /\ [][ScanNext]_vars

\* the scheduler runs the scanning thread while it can step, and glob_path
\* while a message waits or the scanning thread has returned
ScanFairSpec ==
  /\ ScanSpec
  /\ WF_vars(WorkerStep)
  /\ WF_vars(FgRecv)
  /\ WF_vars(JoinScan)

\* ------------------------------------------- dispatch_normal, with counts
\* actions of the view and of the index, and the counts they are dispatched with
DispatchActions ==
  {"RotateCW", "RotateCCW", "FlipHorizontal", "FlipVertical", "Next", "Prev"}
DispatchTimes == 1..4

\* dispatch_normal called with an action and a count
Dispatch ==
  /\ Running
  /\ \E a \in DispatchActions, n \in DispatchTimes :
       /\ Commit(dispatch_normal(Bundle, ProcessAction(a, n)).st)
       /\ last' = Step("Dispatch", OtherEvent, ProcessAction(a, n), "", NoAction)
  /\ UNCHANGED <<fs, scan, queue, pc, complete_action, input, nevents, owed, overflow_checks>>

DispatchInit == ProgramInit({AllPaths}, InitCaps, InitFs)

DispatchSpec == DispatchInit /\ [][Dispatch]_vars

\* ------------------------------------ the run loop, jumps keyed with counts
\* a digit, the key that jumps to an image, the key that removes a digit
\* and a key that moves the index
GotoEvents == {TextInput("2"), TextInput("G"), KeyDown("Backspace"), TextInput("j")}

TypeGoto == Produce(GotoEvents)

GotoInit == ProgramInit({AllPaths}, InitCaps, InitFs)

GotoNext ==
  \/ TypeGoto
  \/ RunStep
  \/ NormalEvent
  \/ MultiEvent
  \/ MultiPollEnd

GotoSpec == GotoInit /\ [][GotoNext]_vars

\* ----------------------------------------- dispatch_normal, with batches
\* the batches that remove images and a move of the index, and the counts a
\* user can key, up to the saturated one
BatchActions == {"Move", "Delete", "Trash", "Next"}
BatchTimes == {1, 2, USIZE_MAX}

\* dispatch_normal called with a batch and a count
DispatchBatch ==
  /\ Running
  /\ \E a \in BatchActions, n \in BatchTimes :
       /\ Commit(dispatch_normal(Bundle, ProcessAction(a, n)).st)
       /\ last' = Step("DispatchBatch", OtherEvent, ProcessAction(a, n), "", NoAction)
  /\ UNCHANGED <<fs, scan, queue, pc, complete_action, input, nevents, owed, overflow_checks>>

\* a filesystem on which every operation succeeds
BatchInit == ProgramInit({AllPaths}, InitCaps, {[fail |-> {}, dest_ok |-> TRUE]})

BatchSpec == BatchInit /\ [][DispatchBatch]_vars

\* --------------------------------------------------- the sort command
\* the sort command without an argument and with the name of an order
SortArguments == {"", "size", "date", "alphabetical", "breadthfirst", "depthfirst"}

\* Program::sort
Sort ==
  /\ Running
  /\ \E arguments \in SortArguments :
       /\ Commit(program_sort(Bundle, arguments))
       /\ last' = [Step("Sort", OtherEvent, NoAction, "", NoAction) EXCEPT !.line = arguments]
  /\ UNCHANGED <<fs, scan, queue, pc, complete_action, input, nevents, owed, overflow_checks>>

\* Program::init with every order and with and without the reverse flag:
\* the images found are sorted before the registry is built
SortInit ==
  /\ \E so \in {Sorter_new(o, r) : o \in SortOrders, r \in BOOLEAN}, cap \in InitCaps :
       /\ sorter = so
       /\ paths = with_maximum_viewable(PathsBuilder_new(Sorter_sort(so, AllPaths)), cap)
  /\ fs \in InitFs
  /\ overflow_checks \in BOOLEAN
  /\ ui = State_default
  /\ queue = <<>>
  /\ pc = "run"
  /\ complete_action = FALSE
  /\ input = ""
  /\ nevents = 0
  /\ owed = NoAction
  /\ scan = NoScan
  /\ panicked = FALSE
  /\ last = [op |-> "init", arg |-> OtherEvent, pre |-> 0, pre_owed |-> NoAction, line |-> "",
             pa |-> NoAction, kind |-> "", bulk |-> NoAction, attempts |-> <<>>, mid |-> paths,
             entry |-> NoEntry]

SortSpec == SortInit /\ [][Sort]_vars

\* ------------------------------------------------------------ properties
\* the soft cap last requested, as a count: min(images.len(), soft cap), or
\* images.len() when no cap is set
RequestedViewable(p) ==
  IF p.art_len_orig # None THEN Min(Len(p.images), p.art_len_orig) ELSE Len(p.images)

\* C1: whenever index is Some(i), i is below the effective viewable count
\* and below images.len(), so the current image path is always in bounds.
C1_IndexInBounds ==
  paths.index # None =>
    /\ max_viewable(paths) # None
    /\ paths.index >= 0
    /\ paths.index < max_viewable(paths)
    /\ paths.index < Len(paths.images)

\* a current image survives a removal under a soft cap smaller than images.len()
C1_Witness ==
  /\ last.op = "remove_current_image"
  /\ ~panicked
  /\ paths.index # None
  /\ last.pre.index = last.pre.art_len - 1
  /\ paths.art_len < Len(paths.images)

\* C2 (as claimed): index is None if and only if images is empty.
C2_NoneIffEmpty == (paths.index = None) <=> (Len(paths.images) = 0)

\* C3 (as claimed): max_viewable is min(images.len(), soft cap), or
\* images.len() without a cap, a count of 0 being reported as None.
C3_ViewableIsMin ==
  max_viewable(paths) = (IF RequestedViewable(paths) = 0 THEN None ELSE RequestedViewable(paths))

\* C3 (amended): the viewable count is never negative and never above
\* min(images.len(), soft cap); it equals images.len() when no cap is set,
\* equals the minimum right after construction, set_actual_maximum and
\* reload_images, and every removal of a viewable image lowers it by one.
C3_ViewableAtMostMin ==
  /\ paths.art_len >= 0
  /\ paths.art_len <= RequestedViewable(paths)
  /\ max_viewable(paths) = (IF paths.art_len = 0 THEN None ELSE paths.art_len)
  /\ paths.art_len_orig = None => paths.art_len = Len(paths.images)
  /\ last.op \in {"build", "set_actual_maximum", "reload_images"} =>
        paths.art_len = RequestedViewable(paths)
  /\ (last.op = "remove_current_image" /\ last.pre.index # None /\ ~panicked) =>
        /\ paths.art_len = last.pre.art_len - 1
        /\ Len(paths.images) = Len(last.pre.images) - 1

\* a removal under a cap leaves fewer viewable images than min(len, cap)
C3_Witness ==
  /\ last.op = "remove_current_image"
  /\ last.pre.index # None
  /\ paths.art_len_orig # None
  /\ paths.art_len < RequestedViewable(paths)

\* C4: remove_current_image with k viewable images and index i: the last
\* viewable slot (i = k-1, k >= 2) moves the index to i-1; an earlier slot
\* keeps i, making the following image current; k = 1 gives None; the index
\* is never negative and never above the new viewable count minus 1.
C4_RemoveCurrentIndex ==
  (last.op = "remove_current_image" /\ last.pre.index # None) =>
    LET k == last.pre.art_len
        i == last.pre.index
    IN /\ ~panicked
       /\ (k >= 2 /\ i = k - 1) => paths.index = i - 1
       /\ (k >= 2 /\ i < k - 1) =>
            /\ paths.index = i
            /\ current_image_path(paths) = At(last.pre.images, i + 1)
       /\ k = 1 => paths.index = None
       /\ paths.index # None => (paths.index >= 0 /\ paths.index <= paths.art_len - 1)

\* the current image was in a middle slot and the next one took its place
C4_Witness ==
  /\ last.op = "remove_current_image"
  /\ last.pre.index # None
  /\ last.pre.art_len >= 3
  /\ last.pre.index = 1
  /\ paths.index = 1

\* C6 (as claimed): reverse() reverses images and keeps the same path
\* current, the index becoming max_viewable_index - old index.
C6_ReverseKeepsCurrent ==
  (last.op = "reverse" /\ last.pre.index # None) =>
    /\ ~panicked
    /\ paths.images = Reverse(last.pre.images)
    /\ paths.index = max_viewable_index(last.pre) - last.pre.index
    /\ current_image_path(paths) = current_image_path(last.pre)

\* C7 (as claimed): increment(step) sets the index to
\* min(i + step, max_viewable_index) without overflow, decrement(step) to
\* max(i - step, 0); neither touches a registry without a current image.
C7_SaturatingMoves ==
  /\ (last.op = "increment" /\ last.pre.index # None) =>
        /\ ~panicked
        /\ paths = [last.pre EXCEPT !.index = Min(last.pre.index + last.arg, max_viewable_index(last.pre))]
  /\ (last.op = "decrement" /\ last.pre.index # None) =>
        paths = [last.pre EXCEPT !.index = Max(last.pre.index - last.arg, 0)]
  /\ (last.op \in {"increment", "decrement"} /\ last.pre.index = None) =>
        (~panicked /\ paths = last.pre)

\* a sort command has just been run on the line the user typed
SortStep ==
  /\ last.op = "CommandEvent"
  /\ last.kind = "finish"
  /\ last.line # ""
  /\ parse_user_input(last.line).command = "Sort"

\* C5: after a sort command, with or without an order, the image that was
\* current before the command is still the current image when its new
\* position is within the viewable range, and the index is 0 when it is not
C5_SortKeepsCurrent ==
  (SortStep /\ ~panicked /\ current_image_path(last.pre.paths) >= 0) =>
    LET P == current_image_path(last.pre.paths)
        new_index == position(paths.images, P)
    IN IF new_index # None /\ max_viewable_index(paths) # None
          /\ new_index <= max_viewable_index(paths)
       THEN current_image_path(paths) = P
       ELSE paths.index = 0

\* an action key has just been pressed in MultiNormal mode
ActionKeyed ==
  /\ last.op = "MultiEvent"
  /\ last.kind = "Repeat"
  /\ last.pa.action \notin {"Backspace", "Last", "Noop"}

\* C8: an action keyed in MultiNormal mode with count n is dispatched exactly
\* once with count n whatever events follow: the mode is Normal after the key,
\* the register holds that action and count until Normal mode dispatches it,
\* what Normal mode dispatches in bulk is that action, the register is back at
\* its default afterwards, and the program does not stop while it is owed
C8_KeyedActionDispatchedOnce ==
  /\ ActionKeyed => ui.mode = "Normal"
  /\ (owed # NoAction /\ ~panicked) => ui.cur_action = owed
  /\ (last.op = "NormalEvent" /\ last.bulk # NoAction) =>
       (last.bulk = last.pre_owed /\ (~panicked => ui.cur_action = ProcessAction_default))
  /\ pc = "done" => owed = NoAction

\* the repeat key has just been pressed
PeriodStep ==
  /\ last.op \in {"NormalEvent", "MultiEvent"}
  /\ last.arg = KeyDown("Period")

\* C9 as stated: the repeat key re-issues the last recorded action with the
\* count typed just before it, and with 1 in Normal mode
C9_PeriodUsesCurrentCount ==
  PeriodStep =>
    last.pa = ProcessAction(last.pre.ui.last_action.action,
                            IF last.op = "MultiEvent" THEN last.pre.ui.cur_action.times ELSE 1)

\* C9: the repeat key re-issues the last recorded action; in MultiNormal mode
\* with the count typed just before it, which also becomes the recorded count,
\* and in Normal mode with the count recorded with the action
C9_PeriodCount ==
  PeriodStep =>
    /\ last.pa.action = last.pre.ui.last_action.action
    /\ last.op = "MultiEvent" =>
         /\ last.pa.times = last.pre.ui.cur_action.times
         /\ ui.last_action.times = last.pre.ui.cur_action.times
    /\ last.op = "NormalEvent" => last.pa.times = last.pre.ui.last_action.times

\* the repeat key pressed in Normal mode, the register at its default, after
\* an action that was run with count 2
C9_Witness ==
  /\ PeriodStep
  /\ last.op = "NormalEvent"
  /\ last.pre.ui.cur_action = ProcessAction_default
  /\ last.pa = ProcessAction("Next", 2)

\* the actions the user interface never replays
NotReplayable ==
  {"Quit", "ReRender", "Noop", "SwitchCommandMode", "SwitchMultiNormalMode",
   "SwitchNormalMode", "Backspace"}

\* C10: processing Quit, ReRender, Noop, a mode switch or the Backspace that
\* edits the count leaves last_action as it was
C10_LastActionReplayable ==
  (last.op \in {"NormalEvent", "MultiEvent"} /\ last.pa.action \in NotReplayable) =>
    ui.last_action = last.pre.ui.last_action


\* the event is a digit typed as text
DigitTyped == last.arg.type = "TextInput" /\ last.arg.key \in Digits

\* C11: a digit 1..9 typed in Normal mode starts the count at that digit and
\* enters MultiNormal mode; each digit typed in MultiNormal mode makes the
\* count ten times the old count plus the digit, capped at the largest usize;
\* Backspace divides it by ten; none of this panics
C11_DigitsAccumulate ==
  /\ (last.op = "NormalEvent" /\ DigitTyped /\ last.arg.key # "0") =>
       /\ ui.cur_action.times = DigitValue[last.arg.key]
       /\ ui.mode = "MultiNormal"
       /\ ~panicked
  /\ (last.op = "MultiEvent" /\ DigitTyped) =>
       /\ ui.cur_action.times =
            Min(last.pre.ui.cur_action.times * 10 + DigitValue[last.arg.key], USIZE_MAX)
       /\ ~panicked
  /\ (last.op = "MultiEvent" /\ last.arg = KeyDown("Backspace")) =>
       /\ ui.cur_action.times = last.pre.ui.cur_action.times \div 10
       /\ ~panicked

\* 1, 2, 3 were typed and Backspace has left 12
C11_Witness ==
  /\ last.op = "MultiEvent"
  /\ last.arg = KeyDown("Backspace")
  /\ last.pre.ui.cur_action.times = 123
  /\ ui.cur_action.times = 12

\* C12: Backspace in MultiNormal mode divides the count by ten; the mode
\* stays MultiNormal while the count is not 0 and becomes Normal when it is 0
C12_BackspaceEditsCount ==
  (last.op = "MultiEvent" /\ last.arg = KeyDown("Backspace")
     /\ last.pre.ui.mode = "MultiNormal" /\ ~panicked) =>
    /\ ui.cur_action.times = last.pre.ui.cur_action.times \div 10
    /\ IF ui.cur_action.times # 0
       THEN ui.mode = "MultiNormal" /\ ~complete_action
       ELSE ui.mode = "Normal" /\ complete_action

\* Escape has just been pressed in MultiNormal mode
EscapeStep ==
  /\ last.op = "MultiEvent"
  /\ last.arg = KeyDown("Escape")
  /\ last.pre.ui.mode = "MultiNormal"

\* C13: Escape in MultiNormal mode gives Normal mode and dispatches nothing:
\* the registry and the view are as before, and the count it dropped is not
\* in the register with an action that Normal mode is still to dispatch
C13_EscapeCancels ==
  EscapeStep =>
    /\ ui.mode = "Normal"
    /\ paths = last.pre.paths
    /\ sorter = last.pre.sorter
    /\ [ui EXCEPT !.mode = "Normal"] = [last.pre.ui EXCEPT !.mode = "Normal"]
    /\ ui.cur_action.action # "Noop" => ui.cur_action = owed

\* C14: once the mode is Exit no step changes the mode, the view, the
\* registry or the sorter, and the loop only returns to run and ends
C14_ExitIsTerminal ==
  [][ui.mode = "Exit" =>
       /\ ui' = ui
       /\ paths' = paths
       /\ sorter' = sorter
       /\ pc' \in {pc, "run", "done"}]_vars

\* the line is one of the failing commands: an unknown verb, newglob,
\* destfolder or max without an argument, max with an argument that is not a
\* number, newglob with a pattern that is invalid or matches no image
FailingLine(line) ==
  LET command == parse_user_input(line).command
      arguments == parse_user_input(line).arguments
  IN /\ line # ""
     /\ \/ command = "Err"
        \/ command \in {"NewGlob", "DestFolder", "MaximumImages"} /\ arguments = ""
        \/ command = "MaximumImages" /\ parse_usize(arguments) = None
        \/ command = "NewGlob" /\ arguments # "" /\ path_to_glob(arguments).ok
             /\ ~glob_path(path_to_glob(arguments).path).ok

\* a command line has just been submitted
CommandStep == last.op = "CommandEvent" /\ last.kind = "finish"

\* the batch action that Normal mode has just dispatched, the event's own or the stored one
BatchAction == IF last.bulk # NoAction THEN last.bulk ELSE last.pa
BatchStep(actions) == last.op = "NormalEvent" /\ BatchAction.action \in actions

\* a file operation or a command has just failed
FailedStep ==
  \/ BatchStep({"Copy", "Move", "Delete", "Trash"})
       /\ \E k \in 1..Len(last.attempts) : ~last.attempts[k].ok
  \/ CommandStep /\ FailingLine(last.line)

\* C15: while the mode is Error or Success the loop is in run, and its next
\* step sets the mode to Normal, takes no event from the queue and stays in
\* the loop; a failed file operation or command gives Error, no panic and no exit
C15_OverlayReturns ==
  /\ []((ui.mode \in {"Error", "Success"} /\ ~panicked) => pc = "run")
  /\ [][(ui.mode \in {"Error", "Success"} /\ nevents' = nevents) =>
          (ui'.mode = "Normal" /\ queue' = queue /\ pc' = "run" /\ paths' = paths)]_vars
  /\ [](FailedStep => (ui.mode = "Error" /\ ~panicked /\ pc = "run"))

\* the loop has just left Error after a failed delete, events still queued
C15_Witness ==
  /\ last.op = "RunStep"
  /\ last.kind = "Error"
  /\ ui.mode = "Normal"
  /\ pc = "run"
  /\ queue # <<>>
  /\ fs.fail # {}
  /\ paths.images # <<>>

\* C17: after a batch move, delete or trash an image is gone from the
\* registry exactly when an operation on it succeeded, and every image whose
\* operation failed is still in the registry
C17_RemovedIffSucceeded ==
  (BatchStep({"Move", "Delete", "Trash"}) /\ ~panicked) =>
    /\ \A p \in Range(last.pre.paths.images) :
         (p \notin Range(paths.images)) <=>
           (\E k \in 1..Len(last.attempts) : last.attempts[k].path = p /\ last.attempts[k].ok)
    /\ \A k \in 1..Len(last.attempts) :
         ~last.attempts[k].ok => last.attempts[k].path \in Range(paths.images)

\* a batch of two in which one operation succeeded and one failed
C17_Witness ==
  /\ BatchStep({"Move", "Delete", "Trash"})
  /\ BatchAction.times = 2
  /\ \E k \in 1..Len(last.attempts) : last.attempts[k].ok
  /\ \E k \in 1..Len(last.attempts) : ~last.attempts[k].ok
  /\ Len(paths.images) = Len(last.pre.paths.images) - 1

\* the images a batch of n from the current image is to act on
BatchRange(p, n) ==
  IF n = 0 \/ p.index = None \/ max_viewable_index(p) = None THEN <<>>
  ELSE SubSeq(p.images, p.index + 1, Min(p.index + n - 1, max_viewable_index(p)) + 1)

\* C18: a batch copy, move, delete or trash attempts each image of its range
\* once, in order, whether or not an earlier one failed
C18_EachAttemptedOnce ==
  (BatchStep({"Copy", "Move", "Delete", "Trash"}) /\ ~panicked) =>
    [k \in 1..Len(last.attempts) |-> last.attempts[k].path]
      = BatchRange(last.mid, BatchAction.times)

\* C16: no sequence of keys and commands makes the program panic on a
\* broken contract of the registry (set_index past the last viewable image or
\* without images, an unwrap of an absent index); no count is typed here, so
\* no arithmetic overflows and every panic is of that kind
C16_NoContractPanic == ~panicked

\* C19: a failing command leaves the images, the index, the viewable count
\* and the destination folder as they were and sets the mode to Error
C19_FailingCommandKeepsRegistry ==
  (CommandStep /\ FailingLine(last.line)) =>
    /\ ui.mode = "Error"
    /\ ~panicked
    /\ paths.images = last.pre.paths.images
    /\ paths.index = last.pre.paths.index
    /\ max_viewable(paths) = max_viewable(last.pre.paths)
    /\ paths.dest_folder = last.pre.paths.dest_folder

\* max with an argument that is not a number has failed on a capped
\* registry whose index had moved
C19_Witness ==
  /\ CommandStep
  /\ last.line = "m x"
  /\ ui.mode = "Error"
  /\ paths.index = 1
  /\ max_viewable(paths) = 2
  /\ Len(paths.images) > 2

\* C20: after a submitted command line has been processed the mode is
\* Normal, Error, Success or Exit, never Command
C20_CommandModeLeft ==
  (CommandStep /\ ~panicked) => ui.mode \in {"Normal", "Error", "Success", "Exit"}

\* get_command returned an empty line after the prompt was opened with ':'
EmptyLineLeft ==
  /\ last.op = "CommandEvent"
  /\ last.kind = "finish"
  /\ last.line = ""
  /\ PromptOpened(last.entry)

\* C21: when the prompt opened with ':' is left with an empty line (Return or
\* Escape, or Backspace on the empty buffer), the mode is Normal and the
\* registry with its destination folder, the sorter, the info bar flag and the
\* help flag are what they were before ':' was pressed
C21_EmptyLineNoEffect ==
  (EmptyLineLeft /\ ~panicked) =>
    /\ ui.mode = "Normal"
    /\ paths = last.entry.paths
    /\ sorter = last.entry.sorter
    /\ ui.render_infobar = last.entry.ui.render_infobar
    /\ ui.render_help = last.entry.ui.render_help

\* the newglob command has just succeeded
NewGlobStep ==
  /\ last.op = "CommandEvent"
  /\ last.kind = "finish"
  /\ last.line # ""
  /\ parse_user_input(last.line).command = "NewGlob"
  /\ ui.mode = "Success"
  /\ ~panicked

\* C22: after a successful newglob, when the path P that was current before
\* is in the new, sorted image set at a position no greater than the maximum
\* viewable index, the current image is P; when P is absent, lies beyond the
\* maximum viewable index, or there was no current image, the index is 0
C22_NewGlobKeepsCurrent ==
  NewGlobStep =>
    LET P == current_image_path(last.pre.paths)
        pos == position(paths.images, P)
    IN IF P # None /\ pos # None /\ pos <= max_viewable_index(paths)
       THEN current_image_path(paths) = P /\ paths.index = pos
       ELSE paths.index = 0

\* a newglob after which the current image is the one shown before, at a new,
\* non-zero position
C22_Witness ==
  /\ NewGlobStep
  /\ current_image_path(last.pre.paths) = current_image_path(paths)
  /\ paths.index > 0
  /\ paths.index # last.pre.paths.index
  /\ paths.images # last.pre.paths.images

\* C23: reload_images(new) replaces images with new; the index becomes
\* Some(0) when new is non-empty and None otherwise; the viewable count
\* becomes min(c, new.len()) for the cap c the user last requested, and
\* new.len() without a cap, however far removals had shrunk it before
C23_ReloadResets ==
  last.op = "reload_images" =>
    LET new == last.arg
        c == last.pre.art_len_orig
    IN /\ ~panicked
       /\ paths.images = new
       /\ paths.index = (IF Len(new) = 0 THEN None ELSE 0)
       /\ paths.art_len = (IF c # None THEN Min(c, Len(new)) ELSE Len(new))
       /\ max_viewable(paths) = (IF paths.art_len = 0 THEN None ELSE paths.art_len)
       /\ paths.art_len_orig = c
       /\ paths.dest_folder = last.pre.dest_folder

\* a reload under a cap after removals had shrunk the viewable count below it
C23_Witness ==
  /\ last.op = "reload_images"
  /\ last.pre.art_len_orig # None
  /\ last.pre.art_len < Min(last.pre.art_len_orig, Len(last.pre.images))
  /\ last.pre.index # 0
  /\ paths.art_len > last.pre.art_len
  /\ paths.art_len < Len(paths.images)

\* C24: set_actual_maximum(0), after any cap and any removals, makes the
\* viewable count images.len(), forgets the cap and leaves the index and
\* the images as they were; an increment(step) that follows it from index
\* i, with i + step within usize, reaches min(i + step, images.len() - 1),
\* past the former cap
C24_ZeroClearsCap ==
  [][
     /\ (last'.op = "set_actual_maximum" /\ last'.arg = 0) =>
          /\ ~panicked'
          /\ paths'.art_len = Len(paths'.images)
          /\ max_viewable(paths') = (IF Len(paths'.images) = 0 THEN None ELSE Len(paths'.images))
          /\ paths'.art_len_orig = None
          /\ paths'.index = paths.index
          /\ paths'.images = paths.images
     /\ (/\ last.op = "set_actual_maximum"
         /\ last.arg = 0
         /\ last'.op = "increment"
         /\ paths.index # None
         /\ paths.index + last'.arg <= USIZE_MAX) =>
          /\ ~panicked'
          /\ paths'.index = Min(paths.index + last'.arg, Len(paths.images) - 1)
  ]_vars

\* the cap is cleared after removals had shrunk the viewable count, and
\* images beyond the former cap come into view behind the current image
C24_Witness ==
  /\ last.op = "set_actual_maximum"
  /\ last.arg = 0
  /\ last.pre.art_len_orig # None
  /\ last.pre.art_len < Min(last.pre.art_len_orig, Len(last.pre.images))
  /\ paths.index # None
  /\ paths.index = last.pre.index
  /\ paths.art_len = Len(paths.images)
  /\ paths.art_len > last.pre.art_len

\* C25: set_actual_maximum(n) with n > 0 records n as the soft cap and makes
\* the viewable count min(n, images.len()); an index above the new maximum
\* viewable index becomes that maximum, any other index, and the images,
\* stay as they were
C25_CapClampsIndex ==
  (last.op = "set_actual_maximum" /\ last.arg > 0) =>
    /\ ~panicked
    /\ paths.art_len_orig = last.arg
    /\ paths.art_len = Min(last.arg, Len(paths.images))
    /\ max_viewable(paths) = (IF paths.art_len = 0 THEN None ELSE paths.art_len)
    /\ paths.images = last.pre.images
    /\ paths.index =
         (IF last.pre.index # None /\ max_viewable_index(paths) # None
             /\ last.pre.index > max_viewable_index(paths)
          THEN max_viewable_index(paths)
          ELSE last.pre.index)

\* a cap lowered below the current image pulls the index down to the new
\* last viewable image
C25_Witness ==
  /\ last.op = "set_actual_maximum"
  /\ last.arg > 0
  /\ last.arg < Len(paths.images)
  /\ last.pre.index > last.arg - 1
  /\ paths.index = last.arg - 1
  /\ paths.index > 0

\* C26: reverse() called twice in a row on a registry that has a current
\* image, with or without a soft cap, returns images to their original
\* order and the index to its original value
C26_ReverseTwice ==
  (last.twice /\ last.origin.index # None) =>
    /\ ~panicked
    /\ paths.images = last.origin.images
    /\ paths.index = last.origin.index
    /\ paths = last.origin

\* two reverse calls under a soft cap that hides an image, the current image
\* not being in the middle of the view
C26_Witness ==
  /\ last.twice
  /\ last.origin.index # None
  /\ paths.art_len < Len(paths.images)
  /\ last.pre.images # paths.images
  /\ last.pre.index # paths.index

C28_RemoveAnyKeepsBound ==
  last.op = "remove_image" =>
    /\ ~panicked
    /\ max_viewable(paths) # None =>
         /\ paths.index # None
         /\ paths.index <= max_viewable_index(paths)

\* the images in view: the first art_len of the registry
Viewable(p) == {p.images[k] : k \in 1..p.art_len}

\* C29: with images hidden beyond the soft cap, each remove_current_image
\* lowers the viewable count by one and no hidden image comes into view;
\* when the last viewable image is removed the index, current_image and
\* max_viewable are all None although images remain in the registry
C29_CappedRemovalShrinksView ==
  (/\ last.op = "remove_current_image"
   /\ last.pre.index # None
   /\ last.pre.art_len_orig # None
   /\ last.pre.art_len < Len(last.pre.images)) =>
    /\ ~panicked
    /\ paths.images = RemoveAt(last.pre.images, last.pre.index)
    /\ paths.art_len = last.pre.art_len - 1
    /\ Viewable(paths) = Viewable(last.pre) \ {current_image_path(last.pre)}
    /\ last.pre.art_len = 1 =>
         /\ paths.index = None
         /\ current_image(paths) = None
         /\ max_viewable(paths) = None
         /\ max_viewable_index(paths) = None
         /\ Len(paths.images) > 0

\* the second of two viewable images is removed under a cap of two and an
\* image is left in the registry without being shown
C29_Witness ==
  /\ last.op = "remove_current_image"
  /\ last.pre.art_len_orig = 2
  /\ last.pre.art_len = 1
  /\ Len(last.pre.images) = 2
  /\ paths.index = None
  /\ max_viewable(paths) = None
  /\ Len(paths.images) = 1

\* C30 (as claimed): after any sequence of increment, decrement,
\* remove_current_image and set_actual_maximum calls on a registry built
\* non-empty, the index is None, the registry being empty, or strictly less
\* than the current maximum viewable index
C30_IndexBelowMaxIndex ==
  \/ paths.index = None /\ Len(paths.images) = 0
  \/ /\ paths.index # None
     /\ max_viewable_index(paths) # None
     /\ paths.index < max_viewable_index(paths)

\* C30 (amended): after any such sequence the index is None or at most the
\* current maximum viewable index, that is strictly less than the viewable
\* count; it is None whenever the registry is empty or no image is viewable
C30_IndexAtMostMaxIndex ==
  /\ Len(paths.images) = 0 => paths.index = None
  /\ max_viewable_index(paths) = None => paths.index = None
  /\ paths.index # None =>
       /\ max_viewable_index(paths) # None
       /\ 0 <= paths.index
       /\ paths.index <= max_viewable_index(paths)
       /\ max_viewable_index(paths) <= Len(paths.images) - 1

\* an increment has put the index on the last viewable image, which is not
\* the first
C30_Witness ==
  /\ last.op = "increment"
  /\ ~panicked
  /\ paths.index = max_viewable_index(paths)
  /\ paths.index > last.pre.index
  /\ last.pre.index + last.arg > max_viewable_index(paths)

\* the index the claim expects of a skip with count t from registry p
SkipExpected(p, a, t) ==
  LET size == Max(1, Len(p.images) \div 10) IN
  IF p.index = None THEN None
  ELSE IF a = "SkipForward" THEN Min(p.index + t * size, max_viewable_index(p))
  ELSE Max(p.index - t * size, 0)

\* C31: SkipForward and SkipBack with repeat count t move the index by
\* t times max(1, images.len() / 10), clamped to the viewable range; this
\* holds of the action of the key just handled and of the counted action
\* dispatched after it
C31_SkipByTenth ==
  last.op = "NormalEvent" =>
    /\ last.pa.action \in {"SkipForward", "SkipBack"} =>
         /\ ~panicked
         /\ (IF last.bulk # NoAction THEN last.mid.index ELSE paths.index) =
               SkipExpected(last.pre.paths, last.pa.action, last.pa.times)
    /\ (last.bulk # NoAction /\ last.bulk.action \in {"SkipForward", "SkipBack"}) =>
         /\ ~panicked
         /\ paths.index = SkipExpected(last.mid, last.bulk.action, last.bulk.times)

\* C32: under fair scheduling every scan ends: once glob_path waits for the
\* scanning thread, the loop and the thread scope are left, the scanning
\* thread having returned after it sent Complete as its last message and
\* glob_path having received every message
C32_ScanTerminates ==
  (scan.fg = "recv") ~> (/\ scan.fg = "joined"
                         /\ scan.worker = "done"
                         /\ scan.received = scan.sent
                         /\ scan.sent # <<>>
                         /\ scan.sent[Len(scan.sent)].tag = "Complete")

\* a scan that sent more messages than the channel holds has left the loop and
\* the thread scope
C32_Witness ==
  /\ scan.fg = "joined"
  /\ Len(scan.sent) > ChannelCap + 1

\* C33: while a scan runs the registry is the one the scan started with; when
\* newglob ends, Complete has been received and the scanning thread has
\* returned, and the registry is either unchanged (nothing matched) or holds
\* every image matched, sorted
C33_ScanCompleteOrNothing ==
  /\ scan.fg # "idle" => last.op = "StartScan" /\ paths = last.pre.paths
  /\ (last.op = "FinishScan" /\ ~panicked) =>
       /\ scan.received = scan.sent
       /\ scan.sent[Len(scan.sent)].tag = "Complete"
       /\ scan.new_images = scan.matches
       /\ \/ scan.matches = <<>> /\ paths = last.pre.paths /\ ui.mode = "Error"
          \/ /\ scan.matches # <<>>
             /\ paths.images = Sorter_sort(sorter, scan.matches)
             /\ ui.mode = "Success"

\* a scan of more matches than the channel holds has replaced the images
C33_Witness ==
  /\ last.op = "FinishScan"
  /\ ~panicked
  /\ Len(scan.matches) > ChannelCap
  /\ paths.images # last.pre.paths.images
  /\ Len(paths.images) = Len(scan.matches)

\* C34: during a scan the channel holds at most ChannelCap messages; every
\* message sent is received or still in the channel, in the order sent, and
\* all are received when the thread scope ends; while the channel is full the
\* scanning thread sends nothing and finds nothing more
C34_ChannelBounded ==
  /\ [](/\ Len(scan.chan) <= ChannelCap
        /\ scan.fg # "idle" => scan.received \o scan.chan = scan.sent
        /\ scan.fg = "joined" => scan.received = scan.sent /\ scan.chan = <<>>)
  /\ [][Len(scan.chan) = ChannelCap =>
          /\ scan'.sent = scan.sent
          /\ scan'.new_images = scan.new_images
          /\ scan'.worker = scan.worker]_vars

\* the channel is full and the scanning thread has more to send
C34_Witness ==
  /\ scan.fg = "recv"
  /\ Len(scan.chan) = ChannelCap
  /\ scan.worker = "walk"
  /\ Len(scan.new_images) < Len(scan.matches)

\* the program after n dispatches of the action with count 1
RECURSIVE DispatchedOneByOne(_, _, _)
DispatchedOneByOne(st, a, n) ==
  IF n = 0 THEN st
  ELSE DispatchedOneByOne(dispatch_normal(st, ProcessAction(a, 1)).st, a, n - 1)

\* C35: a dispatch with count N leaves the view state (rotation, flips) and
\* the registry as N dispatches with count 1 leave them
C35_CountRepeats ==
  last.op = "Dispatch" =>
    LET one == DispatchedOneByOne(last.pre, last.pa.action, last.pa.times)
    IN /\ ui.rot_angle = one.ui.rot_angle
       /\ ui.flip_horizontal = one.ui.flip_horizontal
       /\ ui.flip_vertical = one.ui.flip_vertical
       /\ paths = one.paths

\* C36: an event is handled by the handler of the mode that is current when
\* it is taken from the queue, and it is taken once: the MultiNormal handler
\* takes an event only in MultiNormal mode, the Normal handler only in
\* Normal mode, and each removes the event it handled from the queue
C36_HandledInCurrentMode ==
  /\ last.op = "MultiEvent" => last.pre.ui.mode = "MultiNormal"
  /\ last.op = "NormalEvent" => last.pre.ui.mode = "Normal"

\* C37: when the Normal handler takes an event while an action buffered by a
\* MultiNormal action key is outstanding, the registry ends as it does when
\* the buffered action is dispatched first and the action of the event after it
C37_BufferedActionFirst ==
  (last.op = "NormalEvent" /\ last.bulk # NoAction /\ ~panicked) =>
    paths = dispatch_normal(dispatch_normal(last.pre, last.bulk).st, last.pa).st.paths

\* C38: G in MultiNormal mode with count n does not panic, computes n - 1
\* without underflow and makes index n - 1 current, clamped to the last
\* viewable image
C38_JumpToCount ==
  (last.op = "MultiEvent" /\ last.pa.action = "Last") =>
    /\ ~panicked
    /\ ~WrapSub(last.pre.ui.cur_action.times, 1).ovf
    /\ max_viewable_index(last.pre.paths) # None =>
         paths.index = Min(last.pre.ui.cur_action.times - 1, max_viewable_index(last.pre.paths))

\* the images of p without those at positions lo ..= hi
WithoutRange(p, lo, hi) ==
  SubSeq(p.images, 1, lo) \o SubSeq(p.images, hi + 2, Len(p.images))

\* C39: a move, delete or trash batch with count N >= 1 at index i, all of
\* whose operations succeed, does not panic, computes its size without
\* overflow and removes the images at positions i ..= min(i + N - 1,
\* max_viewable_index) and no other; the index it leaves is None or viewable
C39_BatchRemovesRange ==
  (/\ last.op = "DispatchBatch"
   /\ last.pa.action \in {"Move", "Delete", "Trash"}
   /\ last.pre.paths.index # None) =>
    /\ ~panicked
    /\ ~total_removes(last.pre.paths.index, last.pa.times,
                      max_viewable_index(last.pre.paths)).ovf
    /\ paths.images =
         WithoutRange(last.pre.paths, last.pre.paths.index,
                      Min(last.pre.paths.index + last.pa.times - 1,
                          max_viewable_index(last.pre.paths)))
    /\ paths.index = None \/ paths.index < max_viewable(paths)

\* C40: the images are in sorted order from the start and after every sort;
\* a sort that leaves the order and the reverse flag of the sorter as they
\* were leaves the images in the order they had
C40_SortIdempotent ==
  (last.op = "Sort" /\ sorter = last.pre.sorter /\ ~panicked) =>
    paths.images = last.pre.paths.images

====
